---- MODULE Spec2Model ----
(***************************************************************************)
(* The workflow engine of alien4cloud-python: the State Manager            *)
(* (core/workflow/state.py) over its store (core/workflow/database.py),    *)
(* the Workflow Executor (core/workflow/executor.py) and the Scheduler     *)
(* (core/workflow/scheduler.py), as asyncio tasks interleaved at their     *)
(* await points.                                                           *)
(*                                                                         *)
(* Every action is the code that one task runs between two suspension      *)
(* points of the event loop.  asyncio cancellation is modelled as CPython  *)
(* implements it: Task.cancel() either cancels the future the task waits   *)
(* on or sets the task's must-cancel flag; gather() forwards a cancel to   *)
(* its children and takes the exception of the first child that raises.    *)
(***************************************************************************)
EXTENDS Integers, Sequences, FiniteSets, TLC

(***************************************************************************)
(* Bounds of the model.                                                    *)
(***************************************************************************)
MaxQueue == 2        \* ids accepted by schedule_workflow whose task has not run yet
MaxConcurrent == 2   \* max_concurrent_workflows ranges over 1..MaxConcurrent
MaxInterrupts == 1   \* cancel_workflow calls and timeout expiries that take effect in one run
MaxWrites == 3       \* State Manager calls per workflow in the direct-call specification
MaxStoreWrites == 2  \* timestamps per workflow in the specification of the store
MaxLogLines == 4     \* log lines per deployment in the specification of the provider
MaxSleeping == 1     \* calls of one kind that sleep in the provider at the same time

WorkflowIds == {"A", "B", "C"}
StepIds == {"s1", "s2", "s3", "s4"}

(***************************************************************************)
(* Python values.                                                          *)
(***************************************************************************)
None == "None"                 \* a missing string (Optional[str])
NoTime == << >>                \* a missing datetime (Optional[datetime])
At(t) == << t >>               \* a datetime
NoWorkflow == [state |-> "ABSENT"]   \* _workflows.get(id) is None

\* state.py: WorkflowState, StepState
WorkflowState == {"CREATED", "PENDING", "RUNNING", "PAUSED", "COMPLETED", "FAILED", "CANCELLED"}
StepState == {"PENDING", "RUNNING", "COMPLETED", "FAILED", "SKIPPED"}
TerminalWorkflowStates == {"COMPLETED", "FAILED", "CANCELLED"}
TerminalStepStates == {"COMPLETED", "FAILED", "SKIPPED"}

DefaultMaxRetries == 3
\* scheduler.py: the default of SchedulerConfig.max_workflow_timeout
DefaultMaxWorkflowTimeout == 3600

\* A cutoff date before every completion time: no workflow has aged out
NothingAged == 0

\* bool(s) of an Optional[str]
Truthy(s) == s # None /\ s # ""

\* executor.py: the messages the executor writes
MsgCancelled == "workflow cancelled manually"
MsgTimeout == "workflow execution timed out"
MsgNoExecutable == "circular dependency or unexecutable step"
MsgUnknownType == "unknown step type"
\* str(e) of the exception a step's execute raises
StepError(s) == "err_" \o s

(***************************************************************************)
(* Blueprints: the step graphs the workflows are created from.  The        *)
(* executor reads a step's type and successor lists from its outputs.      *)
(***************************************************************************)
StepDef(type, succ, fail) == [type |-> type, on_success |-> succ, on_failure |-> fail]

Blueprint(name) ==
  CASE name = "Empty"   -> << >>
    [] name = "Single"  -> [s \in {"s1"} |-> StepDef("inline", {}, {})]
    [] name = "Call"    -> [s \in {"s1"} |-> StepDef("call_operation", {}, {})]
    [] name = "Chain"   -> [s \in {"s1", "s2", "s3"} |->
                              IF s = "s1" THEN StepDef("inline", {"s2"}, {})
                              ELSE IF s = "s2" THEN StepDef("node_operation", {"s3"}, {})
                              ELSE StepDef("inline", {}, {})]
    [] name = "Handler" -> [s \in {"s1", "s2"} |->
                              IF s = "s1" THEN StepDef("inline", {}, {"s2"})
                              ELSE StepDef("inline", {}, {})]
    [] name = "Diamond" -> [s \in {"s1", "s2", "s3", "s4"} |->
                              IF s = "s1" THEN StepDef("inline", {"s2", "s3"}, {})
                              ELSE IF s \in {"s2", "s3"} THEN StepDef("relationship_operation", {"s4"}, {})
                              ELSE StepDef("inline", {}, {})]
    [] name = "Cycle"   -> [s \in {"s1", "s2"} |->
                              IF s = "s1" THEN StepDef("inline", {"s2"}, {})
                              ELSE StepDef("inline", {"s1"}, {})]
    [] name = "Loop"    -> [s \in {"s1"} |-> StepDef("inline", {"s1"}, {})]

\* The workflows of a run: blueprint name per workflow id, "Absent" = never created.
\* One workflow of each blueprint, for the executor
Scenarios ==
  { [w \in WorkflowIds |-> IF w = "A" THEN g ELSE "Absent"] :
      g \in {"Empty", "Single", "Call", "Chain", "Handler", "Diamond", "Cycle", "Loop"} }

\* Three one-step workflows, for the scheduler
SchedulerScenarios == { [w \in WorkflowIds |-> "Single"] }

(***************************************************************************)
(* State.                                                                  *)
(***************************************************************************)
VARIABLES
  workflows,        \* StateManager._workflows: id -> WorkflowStatus (NoWorkflow if absent)
  clock,            \* per workflow: the last value datetime.now() returned for it
  db,               \* the tables behind StateManager.db: workflow and step rows
  statusLog,        \* per workflow: the statuses update_workflow_state wrote, in
                    \* order, during the latest step that called the State Manager
  lastCall,         \* the last direct State Manager call: what it was and how it ended
  maxConcurrent,    \* SchedulerConfig.max_concurrent_workflows
  maxWorkflowTimeout, \* SchedulerConfig.max_workflow_timeout, in seconds
  started,          \* WorkflowScheduler._scheduler_task is not None
  queue,            \* WorkflowScheduler._queue
  running,          \* WorkflowScheduler._running_workflows
  spawned,          \* the ids of the _execute_workflow tasks created and not yet
                    \* run, in the order of the event loop's ready queue
  outerPc,          \* per id: the _execute_workflow task that passed execute_workflow's check
  outerMustCancel,  \* per id: that task's must-cancel flag (set by the timeout)
  timedOut,         \* per id: asyncio.timeout() of that task has expired
  stepsPc,          \* per id: the _execute_workflow_steps task
  stepsExc,         \* per id: str(e) of the exception that task ended with
  stepsMustCancel,  \* per id: that task's must-cancel flag
  pending,          \* per id: pending_steps, local to _execute_workflow_steps
  batch,            \* per id: executable_steps of the current round
  gather,           \* per id: the future of asyncio.gather(*tasks)
  stepPc,           \* per id and step: the _execute_step task
  cancelCalled,     \* per id: cancel_workflow found the workflow's task not done
  stepCancelCalls,  \* per id: the steps StepExecutor.cancel(step) was called for
  held,             \* per id: the WorkflowStatus object execute_workflow fetched,
                    \* once _load_from_db has put another object in the cache
  interrupts,       \* cancel_workflow calls and timeout expiries so far
  provider,         \* the MockCloudProvider object and the calls suspended in it
  factory           \* the class attributes of CloudProviderFactory

smVars == << workflows, clock, db, statusLog >>
schedVars == << maxConcurrent, started, queue, running, spawned >>
outerVars == << outerPc, outerMustCancel, timedOut >>
stepsVars == << stepsPc, stepsExc, stepsMustCancel, pending, batch, gather >>
vars == << workflows, clock, db, statusLog, lastCall, maxConcurrent, started, queue, running, spawned,
           outerPc, outerMustCancel, timedOut, stepsPc, stepsExc, stepsMustCancel,
           pending, batch, gather, stepPc, cancelCalled, stepCancelCalls, held, interrupts,
           maxWorkflowTimeout, provider, factory >>
cloudVars == << provider, factory >>
engineVars == << maxWorkflowTimeout, stepCancelCalls, held, smVars, schedVars, outerVars, stepsVars,
                 stepPc, cancelCalled, interrupts >>

(***************************************************************************)
(* State Store (database.py).  The ORM classes it imports are the tables   *)
(* of the persisted state layout: workflows keyed by id, steps keyed by    *)
(* id with the id of their workflow as a foreign key, deleted with it.     *)
(* A step row is looked up by the step's id alone.                         *)
(***************************************************************************)
NoRow == [state |-> "NOROW"]          \* session.get(...) is None

EmptyDb == [workflows |-> [w \in WorkflowIds |-> NoRow], steps |-> [s \in StepIds |-> NoRow]]

\* A row of the workflows table
WorkflowModel(workflow) ==
  [state |-> workflow.state, created_at |-> workflow.created_at,
   started_at |-> workflow.started_at, completed_at |-> workflow.completed_at,
   error_message |-> workflow.error_message]

\* A row of the steps table
StepModel(workflow_id, step) ==
  [workflow_id |-> workflow_id, state |-> step.state, started_at |-> step.started_at,
   completed_at |-> step.completed_at, error_message |-> step.error_message,
   outputs |-> step.outputs, retry_count |-> step.retry_count,
   max_retries |-> step.max_retries]

\* db_workflow.steps: the step rows whose foreign key is the workflow
StepRowsOf(store, workflow_id) ==
  { s \in StepIds : /\ store.steps[s] # NoRow
                    /\ store.steps[s].workflow_id = workflow_id }

\* Deleting workflow rows deletes the step rows that belong to them
CascadeDelete(steps, gone) ==
  [s \in StepIds |-> IF steps[s] # NoRow /\ steps[s].workflow_id \in gone
                     THEN NoRow ELSE steps[s]]

\* Database.save_workflow
save_workflow(store, workflow_id, workflow) ==
  LET db_workflow == store.workflows[workflow_id]
      saved == IF db_workflow = NoRow
               THEN WorkflowModel(workflow)
               ELSE [db_workflow EXCEPT !.state = workflow.state,
                                        !.started_at = workflow.started_at,
                                        !.completed_at = workflow.completed_at,
                                        !.error_message = workflow.error_message]
      savedStep(step_id) ==
        LET db_step == store.steps[step_id]
            step == workflow.steps[step_id]
        IN IF db_step = NoRow
           THEN StepModel(workflow_id, step)
           ELSE [db_step EXCEPT !.state = step.state,
                                !.started_at = step.started_at,
                                !.completed_at = step.completed_at,
                                !.error_message = step.error_message,
                                !.outputs = step.outputs,
                                !.retry_count = step.retry_count]
  IN [workflows |-> [store.workflows EXCEPT ![workflow_id] = saved],
      steps |-> [s \in StepIds |-> IF s \in DOMAIN workflow.steps
                                   THEN savedStep(s) ELSE store.steps[s]]]

\* Database.load_workflow
load_workflow(store, workflow_id) ==
  LET db_workflow == store.workflows[workflow_id]
  IN IF db_workflow = NoRow
     THEN NoWorkflow
     ELSE [state |-> db_workflow.state,
           steps |-> [s \in StepRowsOf(store, workflow_id) |->
                        [state |-> store.steps[s].state,
                         started_at |-> store.steps[s].started_at,
                         completed_at |-> store.steps[s].completed_at,
                         error_message |-> store.steps[s].error_message,
                         outputs |-> store.steps[s].outputs,
                         retry_count |-> store.steps[s].retry_count,
                         max_retries |-> store.steps[s].max_retries]],
           created_at |-> db_workflow.created_at,
           started_at |-> db_workflow.started_at,
           completed_at |-> db_workflow.completed_at,
           error_message |-> db_workflow.error_message]

\* Database.list_workflows without filters, as the cache _load_from_db builds
\* from it: every workflow row, converted as load_workflow converts it
list_workflows(store) == [w \in WorkflowIds |-> load_workflow(store, w)]

\* cleanup_workflows with `<` for `<=` in its query
CleanupStrictlyOlder(store, cutoff_date) ==
  LET gone == { w \in WorkflowIds :
                  /\ store.workflows[w] # NoRow
                  /\ store.workflows[w].state \in {"COMPLETED", "FAILED", "CANCELLED"}
                  /\ store.workflows[w].completed_at # NoTime
                  /\ store.workflows[w].completed_at[1] < cutoff_date }
  IN [db |-> [workflows |-> [w \in WorkflowIds |-> IF w \in gone THEN NoRow
                                                   ELSE store.workflows[w]],
              steps |-> CascadeDelete(store.steps, gone)],
      count |-> Cardinality(gone)]

\* Database.cleanup_workflows; cutoff_date is datetime.now() - max_age_days.
\* A NULL completed_at matches no comparison.
cleanup_workflows(store, cutoff_date) ==
  LET gone == { w \in WorkflowIds :
                  /\ store.workflows[w] # NoRow
                  /\ store.workflows[w].state \in {"COMPLETED", "FAILED", "CANCELLED"}
                  /\ store.workflows[w].completed_at # NoTime
                  /\ store.workflows[w].completed_at[1] <= cutoff_date }
  IN [db |-> [workflows |-> [w \in WorkflowIds |-> IF w \in gone THEN NoRow
                                                   ELSE store.workflows[w]],
              steps |-> CascadeDelete(store.steps, gone)],
      count |-> Cardinality(gone)]

(***************************************************************************)
(* State Manager (state.py).  An operation takes and returns               *)
(* sm = [wf, clk, db, log, raised]: the cache, the clocks, the tables, the  *)
(* statuses written to each workflow so far in this step and the exception *)
(* raised.                                                                 *)
(* saveOk is whether Database.save_workflow succeeds.  state.py never      *)
(* defines `logger`, so the `except DatabaseError` handlers raise          *)
(* NameError at their first statement and run nothing after it.            *)
(***************************************************************************)
NoLog == [w \in WorkflowIds |-> << >>]

SM(wf, clk, store) == [wf |-> wf, clk |-> clk, db |-> store, log |-> NoLog, raised |-> None]

\* The step ends with the cache and the clocks the State Manager calls left
Commit(sm) ==
  /\ workflows' = sm.wf
  /\ clock' = sm.clk
  /\ db' = sm.db
  /\ statusLog' = sm.log

NewStep(def) ==
  [state |-> "PENDING", started_at |-> NoTime, completed_at |-> NoTime,
   error_message |-> None,
   outputs |-> [type |-> def.type, on_success |-> def.on_success,
                on_failure |-> def.on_failure, result |-> None],
   retry_count |-> 0, max_retries |-> DefaultMaxRetries]

NewWorkflow(now, steps) ==
  [state |-> "CREATED", steps |-> steps, created_at |-> At(now),
   started_at |-> NoTime, completed_at |-> NoTime, error_message |-> None]

get_workflow_status(wf, workflow_id) == wf[workflow_id]

create_workflow(sm, workflow_id, saveOk) ==
  IF sm.wf[workflow_id] # NoWorkflow
  THEN [sm EXCEPT !.raised = "ValueError"]
  ELSE LET now == sm.clk[workflow_id] + 1
           workflow == NewWorkflow(now, << >>)
       IN [sm EXCEPT !.wf = [sm.wf EXCEPT ![workflow_id] = workflow],
                   !.clk = [sm.clk EXCEPT ![workflow_id] = now],
                   !.db = IF saveOk THEN save_workflow(@, workflow_id, workflow) ELSE @,
                   !.raised = IF saveOk THEN None ELSE "NameError"]

\* add_step without its `if step_id in workflow.steps` check
AddStepOverwriting(sm, workflow_id, step_id, saveOk) ==
  IF sm.wf[workflow_id] = NoWorkflow
  THEN [sm EXCEPT !.raised = "ValueError"]
  ELSE LET workflow == sm.wf[workflow_id]
           step == NewStep([type |-> "inline", on_success |-> {}, on_failure |-> {}])
           steps == [s \in DOMAIN workflow.steps \cup {step_id} |->
                       IF s = step_id THEN step ELSE workflow.steps[s]]
           updated == [workflow EXCEPT !.steps = steps]
       IN [sm EXCEPT !.wf = [sm.wf EXCEPT ![workflow_id] = updated],
                   !.db = IF saveOk THEN save_workflow(@, workflow_id, updated) ELSE @,
                   !.raised = IF saveOk THEN None ELSE "NameError"]

add_step(sm, workflow_id, step_id, saveOk) ==
  IF sm.wf[workflow_id] = NoWorkflow
  THEN [sm EXCEPT !.raised = "ValueError"]
  ELSE IF step_id \in DOMAIN sm.wf[workflow_id].steps
  THEN [sm EXCEPT !.raised = "ValueError"]
  ELSE LET workflow == sm.wf[workflow_id]
           step == NewStep([type |-> "inline", on_success |-> {}, on_failure |-> {}])
           steps == [s \in DOMAIN workflow.steps \cup {step_id} |->
                       IF s = step_id THEN step ELSE workflow.steps[s]]
           updated == [workflow EXCEPT !.steps = steps]
       IN [sm EXCEPT !.wf = [sm.wf EXCEPT ![workflow_id] = updated],
                   !.db = IF saveOk THEN save_workflow(@, workflow_id, updated) ELSE @,
                   !.raised = IF saveOk THEN None ELSE "NameError"]

\* update_workflow_state without its `if error_message:` assignment
UpdateDroppingMessage(sm, workflow_id, state, error_message, saveOk) ==
  IF sm.wf[workflow_id] = NoWorkflow
  THEN [sm EXCEPT !.raised = "ValueError"]
  ELSE LET now == sm.clk[workflow_id] + 1
           updated == [sm.wf[workflow_id] EXCEPT
                         !.state = state,
                         !.started_at = IF state = "RUNNING" /\ @ = NoTime
                                        THEN At(now) ELSE @,
                         !.completed_at = IF state \in {"COMPLETED", "FAILED", "CANCELLED"}
                                          THEN At(now) ELSE @]
       IN [sm EXCEPT !.wf = [sm.wf EXCEPT ![workflow_id] = updated],
                     !.clk = [sm.clk EXCEPT ![workflow_id] = now],
                     !.db = IF saveOk THEN save_workflow(@, workflow_id, updated) ELSE @,
                     !.log = [sm.log EXCEPT ![workflow_id] = Append(@, state)],
                     !.raised = IF saveOk THEN None ELSE "NameError"]

update_workflow_state(sm, workflow_id, state, error_message, saveOk) ==
  IF sm.wf[workflow_id] = NoWorkflow
  THEN [sm EXCEPT !.raised = "ValueError"]
  ELSE LET status == sm.wf[workflow_id]
           now == sm.clk[workflow_id] + 1
           updated ==
             [status EXCEPT
                !.state = state,
                !.started_at = IF state = "RUNNING" /\ status.started_at = NoTime
                               THEN At(now) ELSE @,
                !.completed_at = IF state \in {"COMPLETED", "FAILED", "CANCELLED"}
                                 THEN At(now) ELSE @,
                !.error_message = IF Truthy(error_message) THEN error_message ELSE @]
       IN [sm EXCEPT !.wf = [sm.wf EXCEPT ![workflow_id] = updated],
                   !.clk = [sm.clk EXCEPT ![workflow_id] = now],
                   !.db = IF saveOk THEN save_workflow(@, workflow_id, updated) ELSE @,
                   !.log = [sm.log EXCEPT ![workflow_id] = Append(@, state)],
                   !.raised = IF saveOk THEN None ELSE "NameError"]

\* update_step_state counting every start of a step as a retry
UpdateCountingStarts(sm, workflow_id, step_id, state, error_message, outputs, saveOk) ==
  IF sm.wf[workflow_id] = NoWorkflow
  THEN [sm EXCEPT !.raised = "ValueError"]
  ELSE IF step_id \notin DOMAIN sm.wf[workflow_id].steps
  THEN [sm EXCEPT !.raised = "ValueError"]
  ELSE LET step == sm.wf[workflow_id].steps[step_id]
           now == sm.clk[workflow_id] + 1
           updated ==
             [step EXCEPT
                !.state = state,
                !.started_at = IF state = "RUNNING" /\ step.started_at = NoTime
                               THEN At(now) ELSE @,
                !.completed_at = IF state \in {"COMPLETED", "FAILED", "SKIPPED"}
                                 THEN At(now) ELSE @,
                !.error_message = IF Truthy(error_message) THEN error_message ELSE @,
                !.outputs.result = IF outputs # None THEN outputs ELSE @,
                !.retry_count = IF state = "RUNNING" THEN @ + 1 ELSE @]
           workflow == [sm.wf[workflow_id] EXCEPT !.steps[step_id] = updated]
       IN [sm EXCEPT !.wf = [sm.wf EXCEPT ![workflow_id] = workflow],
                   !.clk = [sm.clk EXCEPT ![workflow_id] = now],
                   !.db = IF saveOk THEN save_workflow(@, workflow_id, workflow) ELSE @,
                   !.raised = IF saveOk THEN None ELSE "NameError"]

update_step_state(sm, workflow_id, step_id, state, error_message, outputs, saveOk) ==
  IF sm.wf[workflow_id] = NoWorkflow
  THEN [sm EXCEPT !.raised = "ValueError"]
  ELSE IF step_id \notin DOMAIN sm.wf[workflow_id].steps
  THEN [sm EXCEPT !.raised = "ValueError"]
  ELSE LET step == sm.wf[workflow_id].steps[step_id]
           now == sm.clk[workflow_id] + 1
           updated ==
             [step EXCEPT
                !.state = state,
                !.started_at = IF state = "RUNNING" /\ step.started_at = NoTime
                               THEN At(now) ELSE @,
                !.completed_at = IF state \in {"COMPLETED", "FAILED", "SKIPPED"}
                                 THEN At(now) ELSE @,
                !.error_message = IF Truthy(error_message) THEN error_message ELSE @,
                !.outputs.result = IF outputs # None THEN outputs ELSE @]
           workflow == [sm.wf[workflow_id] EXCEPT !.steps[step_id] = updated]
       IN [sm EXCEPT !.wf = [sm.wf EXCEPT ![workflow_id] = workflow],
                   !.clk = [sm.clk EXCEPT ![workflow_id] = now],
                   !.db = IF saveOk THEN save_workflow(@, workflow_id, workflow) ELSE @,
                   !.raised = IF saveOk THEN None ELSE "NameError"]

\* StateManager._load_from_db on an emptied cache.  When list_workflows raises
\* DatabaseError the handler raises NameError and the cache stays empty.
_load_from_db(sm, loadOk) ==
  IF loadOk
  THEN [sm EXCEPT !.wf = list_workflows(sm.db)]
  ELSE [sm EXCEPT !.wf = [w \in WorkflowIds |-> NoWorkflow], !.raised = "NameError"]

\* StateManager.cleanup_completed_workflows: the State Manager it leaves and
\* the count it returns (None when it raises).  cleanupOk is whether
\* Database.cleanup_workflows succeeds, loadOk whether list_workflows does.
cleanup_completed_workflows(sm, cutoff_date, cleanupOk, loadOk) ==
  IF ~cleanupOk
  THEN [sm |-> [sm EXCEPT !.raised = "NameError"], count |-> None]
  ELSE LET cleaned == cleanup_workflows(sm.db, cutoff_date)
           loaded == _load_from_db([sm EXCEPT !.db = cleaned.db], loadOk)
       IN [sm |-> loaded,
           count |-> IF loaded.raised = None THEN cleaned.count ELSE None]

(***************************************************************************)
(* Cloud providers (cloud/providers/mock/provider.py) and the provider      *)
(* factory (cloud/factory.py).                                             *)
(***************************************************************************)
\* The ids uuid4 may return and the names and inputs of deployments (inputs are
\* left at their default)
DeploymentIds == {"d1", "d2"}
DeploymentNames == {"app"}
DeploymentInputs == {None}

\* A template as validate_template sees it: whether it is a dict, whether it
\* has the key "nodes", whether that is a list, and of each node whether it is
\* a dict with the keys "name" and "type"
Node(isDict, hasName, hasType) == [isDict |-> isDict, hasName |-> hasName, hasType |-> hasType]
Template(isDict, hasNodes, nodesIsList, nodes) ==
  [isDict |-> isDict, hasNodes |-> hasNodes, nodesIsList |-> nodesIsList, nodes |-> nodes]

Templates ==
  { Template(TRUE, TRUE, TRUE, << >>),
    Template(TRUE, TRUE, TRUE, << Node(TRUE, TRUE, TRUE) >>),
    Template(TRUE, TRUE, TRUE, << Node(TRUE, TRUE, TRUE), Node(TRUE, TRUE, FALSE) >>),
    Template(TRUE, TRUE, TRUE, << Node(FALSE, FALSE, FALSE) >>),
    Template(TRUE, TRUE, FALSE, << >>),
    Template(TRUE, FALSE, FALSE, << >>),
    Template(FALSE, FALSE, FALSE, << >>) }

\* MockCloudProvider.__init__.  `used`, `simulating`, `deleting` and
\* `executing` are the event loop's side of the object: the ids uuid4 has
\* returned, the _simulate_deployment tasks that sleep, the number of
\* delete_deployment calls that sleep per id, and the operation records of the
\* execute_operation calls that sleep.
MockCloudProvider ==
  [connected |-> FALSE, deployments |-> << >>, resources |-> << >>, operations |-> << >>,
   logs |-> << >>, metrics |-> << >>,
   used |-> {}, simulating |-> {}, deleting |-> [d \in DeploymentIds |-> 0], executing |-> {}]

\* What a call on the provider leaves behind: the object, the exception raised
\* (None if none) and the value returned
Returned(p, result) == [p |-> p, raised |-> None, result |-> result]
Raises(p, exception) == [p |-> p, raised |-> exception, result |-> None]

\* dict with key k set to v, and dict without key k
DictSet(dict, k, v) == [x \in DOMAIN dict \cup {k} |-> IF x = k THEN v ELSE dict[x]]
DictDel(dict, k) == [x \in DOMAIN dict \ {k} |-> dict[x]]

\* MockCloudProvider.validate_template: the list of errors
RECURSIVE NodeErrors(_)
NodeErrors(nodes) ==
  IF nodes = << >> THEN << >>
  ELSE LET node == Head(nodes)
       IN (IF ~ node.isDict THEN << "node must be a dict" >>
           ELSE (IF ~ node.hasName THEN << "node must have a name" >> ELSE << >>)
                \o (IF ~ node.hasType THEN << "node must have a type" >> ELSE << >>))
          \o NodeErrors(Tail(nodes))

validate_template(template) ==
  IF ~ template.isDict THEN << "template must be a dict" >>
  ELSE IF ~ template.hasNodes THEN << "template must have nodes" >>
  ELSE IF ~ template.nodesIsList THEN << "nodes must be a list" >>
  ELSE NodeErrors(template.nodes)

\* MockCloudProvider.get_operation_types
get_operation_types(p) ==
  IF ~ p.connected THEN Raises(p, "ConnectionError")
  ELSE Returned(p, << "start", "stop", "restart", "scale", "backup", "restore" >>)

\* The names execute_operation is called with: two the provider lists, one it does not
OperationNames == {"restart", "scale", "migrate"}

\* MockCloudProvider.connect and disconnect, when their sleep is over
connect(p) == Returned([p EXCEPT !.connected = TRUE], None)
disconnect(p) == Returned([p EXCEPT !.connected = FALSE], None)

\* MockCloudProvider.create_deployment; deployment_id is what uuid4 returns
create_deployment(p, deployment_id, name, template, inputs) ==
  IF ~ p.connected THEN Raises(p, "ConnectionError")
  ELSE IF validate_template(template) # << >> THEN Raises(p, "DeploymentError")
  ELSE LET deployment_resources ==
             [i \in 1..Len(template.nodes) |-> [state |-> "creating"]]
           deployment ==
             [name |-> name, state |-> "creating", completed |-> FALSE,
              template |-> template, inputs |-> IF Truthy(inputs) THEN inputs ELSE None]
       IN Returned([p EXCEPT
                      !.deployments = DictSet(@, deployment_id, deployment),
                      !.resources = DictSet(@, deployment_id, deployment_resources),
                      !.operations = DictSet(@, deployment_id, << >>),
                      !.logs = DictSet(@, deployment_id, << "create deployment", "create resources" >>),
                      !.metrics = DictSet(@, deployment_id, << >>),
                      !.used = @ \cup {deployment_id},
                      !.simulating = @ \cup {deployment_id}],
                   deployment_id)

\* MockCloudProvider._simulate_deployment, when its sleep is over: KeyError in
\* the task when the deployment is gone
_simulate_deployment(p, deployment_id) ==
  LET woken == [p EXCEPT !.simulating = @ \ {deployment_id}]
  IN IF deployment_id \notin DOMAIN p.deployments THEN Raises(woken, "KeyError")
     ELSE Returned([woken EXCEPT
                      !.resources[deployment_id] =
                         [i \in DOMAIN @ |-> [@[i] EXCEPT !.state = "running"]],
                      !.deployments[deployment_id].state = "running",
                      !.deployments[deployment_id].completed = TRUE,
                      !.logs[deployment_id] = Append(@, "deployment complete")],
                   None)

\* delete_deployment that takes an absent deployment for deleted
DeleteSwallowingNotFound(p, deployment_id) ==
  IF ~ p.connected THEN Raises(p, "ConnectionError")
  ELSE IF deployment_id \notin DOMAIN p.deployments THEN Returned(p, None)
  ELSE Returned([p EXCEPT
                   !.deployments[deployment_id].state = "deleting",
                   !.logs[deployment_id] = Append(@, "delete deployment"),
                   !.deleting[deployment_id] = @ + 1],
                None)

\* MockCloudProvider.delete_deployment, up to its sleep
delete_deployment(p, deployment_id) ==
  IF ~ p.connected THEN Raises(p, "ConnectionError")
  ELSE IF deployment_id \notin DOMAIN p.deployments THEN Raises(p, "NotFoundError")
  ELSE Returned([p EXCEPT
                   !.deployments[deployment_id].state = "deleting",
                   !.logs[deployment_id] = Append(@, "delete deployment"),
                   !.deleting[deployment_id] = @ + 1],
                None)

\* MockCloudProvider.delete_deployment, after its sleep: the five `del`s, of
\* which the first raises KeyError when another call deleted the deployment
delete_deployment_resume(p, deployment_id) ==
  LET woken == [p EXCEPT !.deleting[deployment_id] = @ - 1]
  IN IF deployment_id \notin DOMAIN p.deployments THEN Raises(woken, "KeyError")
     ELSE Returned([woken EXCEPT
                      !.deployments = DictDel(@, deployment_id),
                      !.resources = DictDel(@, deployment_id),
                      !.operations = DictDel(@, deployment_id),
                      !.logs = DictDel(@, deployment_id),
                      !.metrics = DictDel(@, deployment_id)],
                   None)

\* update_deployment that writes before it validates
UpdateThenValidate(p, deployment_id, template, inputs) ==
  IF ~ p.connected THEN Raises(p, "ConnectionError")
  ELSE IF deployment_id \notin DOMAIN p.deployments THEN Raises(p, "NotFoundError")
  ELSE LET updated == [p EXCEPT
                         !.deployments[deployment_id].template = template,
                         !.logs[deployment_id] = Append(@, "update deployment")]
       IN IF validate_template(template) # << >> THEN Raises(updated, "DeploymentError")
          ELSE Returned(updated, None)

\* MockCloudProvider.update_deployment
update_deployment(p, deployment_id, template, inputs) ==
  IF ~ p.connected THEN Raises(p, "ConnectionError")
  ELSE IF deployment_id \notin DOMAIN p.deployments THEN Raises(p, "NotFoundError")
  ELSE IF validate_template(template) # << >> THEN Raises(p, "DeploymentError")
  ELSE Returned([p EXCEPT
                   !.deployments[deployment_id].template = template,
                   !.deployments[deployment_id].inputs = IF Truthy(inputs) THEN inputs ELSE @,
                   !.logs[deployment_id] = Append(@, "update deployment")],
                None)

\* MockCloudProvider.execute_operation, up to its sleep
execute_operation(p, deployment_id, operation) ==
  IF ~ p.connected THEN Raises(p, "ConnectionError")
  ELSE IF deployment_id \notin DOMAIN p.deployments THEN Raises(p, "NotFoundError")
  ELSE IF p.deployments[deployment_id].state # "running" THEN Raises(p, "OperationError")
  ELSE LET operation_record == [operation |-> operation, status |-> "running"]
           index == Len(p.operations[deployment_id]) + 1
       IN Returned([p EXCEPT
                      !.operations[deployment_id] = Append(@, operation_record),
                      !.logs[deployment_id] = Append(@, "execute operation " \o operation),
                      !.executing = @ \cup {<< deployment_id, index >>}],
                   None)

\* MockCloudProvider.execute_operation, after its sleep: the record it holds is
\* completed, whether or not the provider still lists it
execute_operation_resume(p, deployment_id, index) ==
  LET woken == [p EXCEPT !.executing = @ \ {<< deployment_id, index >>}]
  IN IF deployment_id \notin DOMAIN p.operations THEN Returned(woken, [status |-> "success"])
     ELSE Returned([woken EXCEPT !.operations[deployment_id][index].status = "completed"],
                   [status |-> "success"])

\* The class attributes of CloudProviderFactory when the class is defined
CloudProviderFactory ==
  [providers |-> {}, instances |-> {}, configs |-> << >>, default_provider |-> None]

\* @dataclass CloudConfig (cloud/config.py), retries at their defaults
CloudConfig(type, name, enabled, default, timeout) ==
  [type |-> type, name |-> name, enabled |-> enabled, default |-> default,
   timeout |-> timeout, retry_count |-> 3, retry_interval |-> 5]

\* CloudConfig.validate: the exception it raises, None if none
validate(config) ==
  IF config.type = "" THEN "ValueError"
  ELSE IF config.name = "" THEN "ValueError"
  ELSE IF config.timeout <= 0 THEN "ValueError"
  ELSE IF config.retry_count < 0 THEN "ValueError"
  ELSE IF config.retry_interval <= 0 THEN "ValueError"
  ELSE None

\* CloudProviderFactory.register_provider
register_provider(f, provider_type) ==
  IF provider_type \in f.providers THEN Raises(f, "ConfigError")
  ELSE Returned([f EXCEPT !.providers = @ \cup {provider_type}], None)

\* register_config that leaves the previous default as it is
RegisterWithoutDemoting(f, config) ==
  IF validate(config) # None THEN Raises(f, validate(config))
  ELSE IF config.name \in DOMAIN f.configs THEN Raises(f, "ConfigError")
  ELSE IF config.type \notin f.providers THEN Raises(f, "ConfigError")
  ELSE LET added == [f EXCEPT !.configs = DictSet(@, config.name, config)]
       IN IF config.default THEN Returned([added EXCEPT !.default_provider = config.name], None)
          ELSE Returned(added, None)

\* CloudProviderFactory.register_config
register_config(f, config) ==
  IF validate(config) # None THEN Raises(f, validate(config))
  ELSE IF config.name \in DOMAIN f.configs THEN Raises(f, "ConfigError")
  ELSE IF config.type \notin f.providers THEN Raises(f, "ConfigError")
  ELSE LET added == [f EXCEPT !.configs = DictSet(@, config.name, config)]
       IN IF ~ config.default THEN Returned(added, None)
          ELSE IF Truthy(f.default_provider) /\ f.default_provider # config.name
          THEN IF f.default_provider \notin DOMAIN added.configs THEN Raises(added, "KeyError")
               ELSE Returned([added EXCEPT !.configs[f.default_provider].default = FALSE,
                                           !.default_provider = config.name],
                             None)
          ELSE Returned([added EXCEPT !.default_provider = config.name], None)

\* CloudProviderFactory.get_provider: the instance is the name it is kept under
get_provider(f, name) ==
  IF name = None /\ f.default_provider = None THEN Raises(f, "ConfigError")
  ELSE LET n == IF name = None THEN f.default_provider ELSE name
       IN IF n \notin DOMAIN f.configs THEN Raises(f, "ConfigError")
          ELSE IF n \in f.instances THEN Returned(f, n)
          ELSE IF ~ f.configs[n].enabled THEN Raises(f, "ConfigError")
          ELSE Returned([f EXCEPT !.instances = @ \cup {n}], n)

\* CloudProviderFactory.remove_config
remove_config(f, name) ==
  IF name \notin DOMAIN f.configs THEN Raises(f, "ConfigError")
  ELSE Returned([f EXCEPT
                   !.default_provider = IF f.configs[name].default THEN None ELSE @,
                   !.configs = DictDel(@, name),
                   !.instances = @ \ {name}],
                None)

\* CloudProviderFactory.clear
clear(f) ==
  Returned([f EXCEPT !.configs = << >>, !.instances = {}, !.default_provider = None], None)

(***************************************************************************)
(* The state after construction: the workflows of the scenario exist with  *)
(* their steps PENDING, the scheduler is built and not started.            *)
(***************************************************************************)
\* The executor works on the object the cache holds
CachedObject == [detached |-> FALSE, steps |-> << >>]

Idle ==
  /\ started = FALSE
  /\ queue = << >>
  /\ running = {}
  /\ spawned = << >>
  /\ outerPc = [w \in WorkflowIds |-> "none"]
  /\ outerMustCancel = [w \in WorkflowIds |-> FALSE]
  /\ timedOut = [w \in WorkflowIds |-> FALSE]
  /\ stepsPc = [w \in WorkflowIds |-> "none"]
  /\ stepsExc = [w \in WorkflowIds |-> None]
  /\ stepsMustCancel = [w \in WorkflowIds |-> FALSE]
  /\ pending = [w \in WorkflowIds |-> {}]
  /\ batch = [w \in WorkflowIds |-> {}]
  /\ gather = [w \in WorkflowIds |-> [state |-> "none", exc |-> None]]
  /\ stepPc = [w \in WorkflowIds |-> [s \in StepIds |-> [pc |-> "none", exc |-> None]]]
  /\ cancelCalled = [w \in WorkflowIds |-> FALSE]
  /\ stepCancelCalls = [w \in WorkflowIds |-> {}]
  /\ held = [w \in WorkflowIds |-> CachedObject]
  /\ interrupts = 0
  /\ lastCall = [op |-> "none", raised |-> None]
  /\ provider = MockCloudProvider
  /\ factory = CloudProviderFactory

Created(sc) ==
  [w \in WorkflowIds |->
     IF sc[w] = "Absent" THEN NoWorkflow
     ELSE NewWorkflow(0, [s \in DOMAIN Blueprint(sc[w]) |-> NewStep(Blueprint(sc[w])[s])])]

\* The tables after every workflow of the cache was saved, in the order `ids`
RECURSIVE SaveEach(_, _, _)
SaveEach(store, wf, ids) ==
  IF ids = << >> THEN store
  ELSE SaveEach(IF wf[Head(ids)] = NoWorkflow THEN store
                ELSE save_workflow(store, Head(ids), wf[Head(ids)]),
                wf, Tail(ids))

Stored(wf) == SaveEach(EmptyDb, wf, << "A", "B", "C" >>)

Init ==
  /\ \E sc \in Scenarios : workflows = Created(sc)
  /\ clock = [w \in WorkflowIds |-> 0]
  /\ db = Stored(workflows)
  /\ statusLog = NoLog
  /\ maxConcurrent \in 1..MaxConcurrent
  /\ maxWorkflowTimeout = DefaultMaxWorkflowTimeout
  /\ Idle

\* Two one-step workflows, for the order of dispatch
DispatchScenarios ==
  { [w \in WorkflowIds |-> IF w \in {"A", "B"} THEN "Single" ELSE "Absent"] }

DispatchInit ==
  /\ \E sc \in DispatchScenarios : workflows = Created(sc)
  /\ clock = [w \in WorkflowIds |-> 0]
  /\ db = Stored(workflows)
  /\ statusLog = NoLog
  /\ maxConcurrent \in 1..MaxConcurrent
  /\ maxWorkflowTimeout = DefaultMaxWorkflowTimeout
  /\ Idle

SchedulerInit ==
  /\ \E sc \in SchedulerScenarios : workflows = Created(sc)
  /\ clock = [w \in WorkflowIds |-> 0]
  /\ db = Stored(workflows)
  /\ statusLog = NoLog
  /\ maxConcurrent \in 1..MaxConcurrent
  /\ maxWorkflowTimeout = DefaultMaxWorkflowTimeout
  /\ Idle

(***************************************************************************)
(* Scheduler (scheduler.py).                                               *)
(***************************************************************************)
\* WorkflowScheduler.start: idempotent
start ==
  /\ ~started
  /\ started' = TRUE
  /\ UNCHANGED << maxWorkflowTimeout, cloudVars, stepCancelCalls, held, smVars, lastCall, maxConcurrent, queue, running, spawned,
                  outerVars, stepsVars, stepPc, cancelCalled, interrupts >>

\* stop() that cancels the runs in flight as well
StopCancellingRuns ==
  /\ started
  /\ started' = FALSE
  /\ stepsMustCancel' = [w \in WorkflowIds |->
                           IF outerPc[w] = "await" /\ stepsPc[w] \in {"created", "gather"}
                           THEN TRUE ELSE stepsMustCancel[w]]
  /\ UNCHANGED << maxWorkflowTimeout, cloudVars, stepCancelCalls, held, smVars, lastCall, maxConcurrent, queue, running, spawned,
                  outerVars, stepsPc, stepsExc, pending, batch, gather, stepPc, cancelCalled,
                  interrupts >>

\* WorkflowScheduler.stop: cancels the dispatch task and the cleanup task,
\* which wait in wait_for or sleep, and forgets them; the queue, the in-flight
\* set and the _execute_workflow tasks are left alone
stop ==
  /\ started
  /\ started' = FALSE
  /\ UNCHANGED << maxWorkflowTimeout, cloudVars, stepCancelCalls, held, smVars, lastCall, maxConcurrent, queue, running, spawned,
                  outerVars, stepsVars, stepPc, cancelCalled, interrupts >>

\* The ids in the queue plus the tasks created for dequeued ids and not yet run
Waiting == Len(queue) + Len(spawned)

\* WorkflowScheduler.schedule_workflow: raises ValueError, and changes nothing,
\* unless the workflow exists with state CREATED
schedule_workflow(workflow_id) ==
  /\ get_workflow_status(workflows, workflow_id) # NoWorkflow
  /\ get_workflow_status(workflows, workflow_id).state = "CREATED"
  /\ Waiting < MaxQueue
  /\ queue' = Append(queue, workflow_id)
  /\ UNCHANGED << maxWorkflowTimeout, cloudVars, stepCancelCalls, held, smVars, lastCall, maxConcurrent, started, running, spawned,
                  outerVars, stepsVars, stepPc, cancelCalled, interrupts >>

\* asyncio.Queue.get taking the newest id instead of the oldest
QueueGetLast(q) == [item |-> q[Len(q)], rest |-> SubSeq(q, 1, Len(q) - 1)]

\* asyncio.Queue.get on a queue that is not empty: the oldest id leaves
QueueGet(q) == [item |-> Head(q), rest |-> Tail(q)]

\* One pass of the inner loop of WorkflowScheduler._schedule_workflows: the id
\* dequeued joins the in-flight set and a task is created for it; tasks
\* created with create_task first run in the order of their creation
_schedule_workflows ==
  /\ started
  /\ Cardinality(running) < maxConcurrent
  /\ queue # << >>
  /\ LET got == QueueGet(queue)
     IN /\ queue' = got.rest
        /\ running' = running \cup {got.item}
        /\ spawned' = Append(spawned, got.item)
  /\ UNCHANGED << maxWorkflowTimeout, cloudVars, stepCancelCalls, held, smVars, lastCall, maxConcurrent, started,
                  outerVars, stepsVars, stepPc, cancelCalled, interrupts >>

\* A finally clause that leaves the id in the in-flight set
KeepRunning(set, workflow_id) == set

\* `finally: self._running_workflows.remove(workflow_id)`: set.remove raises
\* KeyError, and leaves the set alone, when the id is not in it
RemoveRunning(set, workflow_id) == set \ {workflow_id}

(***************************************************************************)
(* asyncio.Task.cancel() of the _execute_workflow_steps task of a          *)
(* workflow, which is not done.  Not yet run: the task is flagged and ends *)
(* cancelled at its first step.  Waiting on gather(): the cancel goes to   *)
(* the gather future, which cancels every child that is not done; when the *)
(* gather future is done or has no child left to cancel, the task is       *)
(* flagged instead.  A cancelled child runs no more code of _execute_step: *)
(* CancelledError is no Exception, so its handler is skipped.              *)
(***************************************************************************)
Live(w) == { s \in batch[w] : stepPc[w][s].pc \in {"created", "executing"} }

CancelStepsTask(w) ==
  IF stepsPc[w] = "gather" /\ gather[w].state = "pending" /\ Live(w) # {}
  THEN /\ stepPc' = [stepPc EXCEPT ![w] =
                       [s \in StepIds |-> IF s \in Live(w)
                                          THEN [pc |-> "cancelled", exc |-> None]
                                          ELSE @[s]]]
       /\ UNCHANGED stepsMustCancel
  ELSE /\ stepsMustCancel' = [stepsMustCancel EXCEPT ![w] = TRUE]
       /\ UNCHANGED stepPc

StepsTaskDone(w) == stepsPc[w] \in {"returned", "raised", "cancelled"}

\* WorkflowExecutor.cancel_workflow: nothing to do unless the id is registered
\* in executor._running_workflows (from execute_workflow's create_task to its
\* finally); cancelling a task that is done does nothing
cancel_workflow(workflow_id) ==
  /\ outerPc[workflow_id] = "await"
  /\ ~StepsTaskDone(workflow_id)
  /\ interrupts < MaxInterrupts
  /\ interrupts' = interrupts + 1
  /\ CancelStepsTask(workflow_id)
  /\ cancelCalled' = [cancelCalled EXCEPT ![workflow_id] = TRUE]
  /\ UNCHANGED << maxWorkflowTimeout, cloudVars, stepCancelCalls, held, smVars, lastCall, schedVars, outerVars,
                  stepsPc, stepsExc, pending, batch, gather >>

\* asyncio.timeout(max_workflow_timeout) expires while _execute_workflow waits
\* in execute_workflow's `await task`: the waiting task is cancelled, which
\* cancels the steps task it waits on, or flags the waiting task when the
\* steps task is already done.  With a delay of zero the expiry is scheduled
\* with call_soon on entering the block, so it runs before the first step of
\* the steps task, which is created afterwards.
timeout_expires(workflow_id) ==
  /\ outerPc[workflow_id] = "await"
  /\ ~timedOut[workflow_id]
  /\ interrupts < MaxInterrupts \/ maxWorkflowTimeout = 0
  /\ interrupts' = IF interrupts < MaxInterrupts THEN interrupts + 1 ELSE interrupts
  /\ timedOut' = [timedOut EXCEPT ![workflow_id] = TRUE]
  /\ IF StepsTaskDone(workflow_id)
     THEN /\ outerMustCancel' = [outerMustCancel EXCEPT ![workflow_id] = TRUE]
          /\ UNCHANGED << stepsMustCancel, stepPc >>
     ELSE /\ CancelStepsTask(workflow_id)
          /\ UNCHANGED outerMustCancel
  /\ UNCHANGED << maxWorkflowTimeout, cloudVars, stepCancelCalls, held, smVars, lastCall, schedVars, outerPc,
                  stepsPc, stepsExc, pending, batch, gather, cancelCalled >>

(***************************************************************************)
(* Workflow Executor (executor.py).                                        *)
(***************************************************************************)
\* WorkflowExecutor.executors
ExecutorTypes == {"node_operation", "relationship_operation", "inline"}
\* A ready-set that ignores the predecessors: every pending step may start
EveryPendingStep(workflow, pending_steps) == pending_steps

\* WorkflowExecutor._get_executable_steps
_get_executable_steps(workflow, pending_steps) ==
  { step_id \in pending_steps :
      \A other_id \in DOMAIN workflow.steps :
        \/ other_id = step_id
        \/ /\ ~ ( /\ step_id \in workflow.steps[other_id].outputs.on_success
                  /\ workflow.steps[other_id].state # "COMPLETED" )
           /\ ~ ( /\ step_id \in workflow.steps[other_id].outputs.on_failure
                  /\ workflow.steps[other_id].state # "FAILED" ) }

\* The `workflow` that execute_workflow fetched and passed on: the object in
\* the cache, or the one that was there before the cache was reloaded
Held(wf, workflow_id) ==
  IF held[workflow_id].detached
  THEN [steps |-> held[workflow_id].steps]
  ELSE wf[workflow_id]

\* The first run of a task WorkflowScheduler._schedule_workflows created:
\* _execute_workflow up to execute_workflow's `await task`.  When
\* execute_workflow raises ExecutionError (the workflow is absent or not
\* CREATED), _execute_workflow logs it and runs its finally block at once.
_execute_workflow_begin(workflow_id) ==
  /\ spawned # << >>
  /\ Head(spawned) = workflow_id
  /\ spawned' = Tail(spawned)
  /\ LET workflow == get_workflow_status(workflows, workflow_id)
     IN IF workflow = NoWorkflow \/ workflow.state # "CREATED"
        THEN /\ running' = RemoveRunning(running, workflow_id)
             /\ UNCHANGED << smVars, outerPc, stepsPc >>
        ELSE LET sm == update_workflow_state(SM(workflows, clock, db), workflow_id,
                                             "PENDING", None, TRUE)
             IN /\ Commit(sm)
                /\ stepsPc' = [stepsPc EXCEPT ![workflow_id] = "created"]
                /\ outerPc' = [outerPc EXCEPT ![workflow_id] = "await"]
                /\ UNCHANGED running
  /\ UNCHANGED << maxWorkflowTimeout, cloudVars, stepCancelCalls, held, lastCall, maxConcurrent, started, queue, outerMustCancel, timedOut,
                  stepsExc, stepsMustCancel, pending, batch, gather, stepPc, cancelCalled, interrupts >>

\* What execute_workflow's try block does when `await task` ends: the state
\* written, by how the steps task ended (CancelledError also when the waiting
\* task itself was flagged)
ExecuteWorkflowOutcome(sm, workflow_id, ended, exc, mustCancel) ==
  IF mustCancel \/ ended = "cancelled"
  THEN update_workflow_state(sm, workflow_id, "CANCELLED", MsgCancelled, TRUE)
  ELSE IF ended = "raised"
  THEN update_workflow_state(sm, workflow_id, "FAILED", exc, TRUE)
  ELSE sm

\* The exception that leaves execute_workflow after `await task`: none, all
\* three outcomes are handled inside it
ExecuteWorkflowRaises(ended) == None

\* _execute_workflow after execute_workflow: asyncio.timeout turns a
\* CancelledError that leaves its block into TimeoutError once it has expired
ExecuteWorkflowTimeout(sm, workflow_id, expired, leaving) ==
  IF expired /\ leaving = "CancelledError"
  THEN update_workflow_state(sm, workflow_id, "FAILED", MsgTimeout, TRUE)
  ELSE sm

\* The _execute_workflow task resumes when the steps task is done
_execute_workflow_resume(workflow_id) ==
  /\ outerPc[workflow_id] = "await"
  /\ StepsTaskDone(workflow_id)
  /\ LET sm1 == ExecuteWorkflowOutcome(SM(workflows, clock, db), workflow_id,
                                       stepsPc[workflow_id], stepsExc[workflow_id],
                                       outerMustCancel[workflow_id])
         sm2 == ExecuteWorkflowTimeout(sm1, workflow_id, timedOut[workflow_id],
                                       ExecuteWorkflowRaises(stepsPc[workflow_id]))
     IN /\ Commit(sm2)
  /\ outerPc' = [outerPc EXCEPT ![workflow_id] = "done"]
  /\ running' = RemoveRunning(running, workflow_id)
  /\ UNCHANGED << maxWorkflowTimeout, cloudVars, stepCancelCalls, held, lastCall, maxConcurrent, started, queue, spawned, outerMustCancel,
                  timedOut, stepsVars, stepPc, cancelCalled, interrupts >>

\* A loop that treats a round with nothing to start as the end of the workflow
DispatchCompletingStuck(sm, workflow_id, pending_steps) ==
  LET executable_steps == _get_executable_steps(Held(sm.wf, workflow_id), pending_steps)
  IN IF executable_steps = {}
     THEN LET done == update_workflow_state(sm, workflow_id, "COMPLETED", None, TRUE)
          IN /\ Commit(done)
             /\ stepsPc' = [stepsPc EXCEPT ![workflow_id] = "returned"]
             /\ pending' = [pending EXCEPT ![workflow_id] = {}]
             /\ UNCHANGED << stepsExc, batch, gather, stepPc >>
     ELSE /\ Commit(sm)
          /\ stepsPc' = [stepsPc EXCEPT ![workflow_id] = "gather"]
          /\ pending' = [pending EXCEPT ![workflow_id] = pending_steps]
          /\ batch' = [batch EXCEPT ![workflow_id] = executable_steps]
          /\ gather' = [gather EXCEPT ![workflow_id] = [state |-> "pending", exc |-> None]]
          /\ stepPc' = [stepPc EXCEPT ![workflow_id] =
                          [s \in StepIds |-> IF s \in executable_steps
                                             THEN [pc |-> "created", exc |-> None]
                                             ELSE @[s]]]
          /\ UNCHANGED stepsExc

\* One pass of the `while pending_steps` loop of _execute_workflow_steps, up to
\* `await asyncio.gather(*tasks)` or to the end of the coroutine
DispatchRound(sm, workflow_id, pending_steps) ==
  LET executable_steps == _get_executable_steps(Held(sm.wf, workflow_id), pending_steps)
  IN IF pending_steps = {}
     THEN LET done == update_workflow_state(sm, workflow_id, "COMPLETED", None, TRUE)
          IN /\ Commit(done)
             /\ stepsPc' = [stepsPc EXCEPT ![workflow_id] = "returned"]
             /\ pending' = [pending EXCEPT ![workflow_id] = {}]
             /\ UNCHANGED << stepsExc, batch, gather, stepPc >>
     ELSE IF executable_steps = {}
     THEN LET failed == update_workflow_state(sm, workflow_id, "FAILED", MsgNoExecutable, TRUE)
          IN /\ Commit(failed)
             /\ stepsPc' = [stepsPc EXCEPT ![workflow_id] = "raised"]
             /\ stepsExc' = [stepsExc EXCEPT ![workflow_id] = MsgNoExecutable]
             /\ pending' = [pending EXCEPT ![workflow_id] = pending_steps]
             /\ UNCHANGED << batch, gather, stepPc >>
     ELSE /\ Commit(sm)
          /\ stepsPc' = [stepsPc EXCEPT ![workflow_id] = "gather"]
          /\ pending' = [pending EXCEPT ![workflow_id] = pending_steps]
          /\ batch' = [batch EXCEPT ![workflow_id] = executable_steps]
          /\ gather' = [gather EXCEPT ![workflow_id] = [state |-> "pending", exc |-> None]]
          /\ stepPc' = [stepPc EXCEPT ![workflow_id] =
                          [s \in StepIds |-> IF s \in executable_steps
                                             THEN [pc |-> "created", exc |-> None]
                                             ELSE @[s]]]
          /\ UNCHANGED stepsExc

\* The first run of the _execute_workflow_steps task
_execute_workflow_steps_begin(workflow_id) ==
  /\ stepsPc[workflow_id] = "created"
  /\ maxWorkflowTimeout = 0 => timedOut[workflow_id]
  /\ IF stepsMustCancel[workflow_id]
     THEN /\ stepsPc' = [stepsPc EXCEPT ![workflow_id] = "cancelled"]
          /\ UNCHANGED << smVars, stepsExc, pending, batch, gather, stepPc >>
     ELSE LET sm == update_workflow_state(SM(workflows, clock, db), workflow_id,
                                          "RUNNING", None, TRUE)
              workflow == Held(workflows, workflow_id)
              pending_steps == { s \in DOMAIN workflow.steps :
                                   workflow.steps[s].state = "PENDING" }
          IN DispatchRound(sm, workflow_id, pending_steps)
  /\ UNCHANGED << maxWorkflowTimeout, cloudVars, stepCancelCalls, held, lastCall, schedVars, outerVars, stepsMustCancel, cancelCalled, interrupts >>

\* A loop that leaves the steps it has run in pending_steps
ResumeKeepingBatch(workflow_id) ==
  /\ stepsPc[workflow_id] = "gather"
  /\ gather[workflow_id].state # "pending"
  /\ IF stepsMustCancel[workflow_id] \/ gather[workflow_id].exc = "CancelledError"
     THEN /\ stepsPc' = [stepsPc EXCEPT ![workflow_id] = "cancelled"]
          /\ UNCHANGED << smVars, stepsExc, pending, batch, gather, stepPc >>
     ELSE IF gather[workflow_id].state = "exception"
     THEN LET sm == update_workflow_state(SM(workflows, clock, db), workflow_id,
                                          "FAILED", gather[workflow_id].exc, TRUE)
          IN /\ Commit(sm)
             /\ stepsPc' = [stepsPc EXCEPT ![workflow_id] = "raised"]
             /\ stepsExc' = [stepsExc EXCEPT ![workflow_id] = gather[workflow_id].exc]
             /\ UNCHANGED << pending, batch, gather, stepPc >>
     ELSE DispatchRound(SM(workflows, clock, db), workflow_id, pending[workflow_id])
  /\ UNCHANGED << maxWorkflowTimeout, cloudVars, stepCancelCalls, held, lastCall, schedVars, outerVars, stepsMustCancel, cancelCalled, interrupts >>

\* The _execute_workflow_steps task resumes when the gather future is done
_execute_workflow_steps_resume(workflow_id) ==
  /\ stepsPc[workflow_id] = "gather"
  /\ gather[workflow_id].state # "pending"
  /\ IF stepsMustCancel[workflow_id] \/ gather[workflow_id].exc = "CancelledError"
     THEN /\ stepsPc' = [stepsPc EXCEPT ![workflow_id] = "cancelled"]
          /\ UNCHANGED << smVars, stepsExc, pending, batch, gather, stepPc >>
     ELSE IF gather[workflow_id].state = "exception"
     THEN LET sm == update_workflow_state(SM(workflows, clock, db), workflow_id,
                                          "FAILED", gather[workflow_id].exc, TRUE)
          IN /\ Commit(sm)
             /\ stepsPc' = [stepsPc EXCEPT ![workflow_id] = "raised"]
             /\ stepsExc' = [stepsExc EXCEPT ![workflow_id] = gather[workflow_id].exc]
             /\ UNCHANGED << pending, batch, gather, stepPc >>
     ELSE DispatchRound(SM(workflows, clock, db), workflow_id,
                        pending[workflow_id] \ batch[workflow_id])
  /\ UNCHANGED << maxWorkflowTimeout, cloudVars, stepCancelCalls, held, lastCall, schedVars, outerVars, stepsMustCancel, cancelCalled, interrupts >>

\* The first run of an _execute_step task, up to `await executor.execute(...)`
_execute_step_begin(workflow_id, step_id) ==
  /\ stepPc[workflow_id][step_id].pc = "created"
  /\ LET sm1 == update_step_state(SM(workflows, clock, db), workflow_id, step_id,
                                  "RUNNING", None, None, TRUE)
         type == Held(workflows, workflow_id).steps[step_id].outputs.type
         sm2 == update_step_state(sm1, workflow_id, step_id,
                                  "FAILED", MsgUnknownType, None, TRUE)
     IN IF type \in ExecutorTypes
        THEN /\ Commit(sm1)
             /\ stepPc' = [stepPc EXCEPT ![workflow_id][step_id].pc = "executing"]
        ELSE /\ Commit(sm2)
             /\ stepPc' = [stepPc EXCEPT ![workflow_id][step_id] =
                             [pc |-> "raised", exc |-> MsgUnknownType]]
  /\ UNCHANGED << maxWorkflowTimeout, cloudVars, stepCancelCalls, held, lastCall, schedVars, outerVars, stepsVars, cancelCalled, interrupts >>

\* executor.execute returns (raises = FALSE) or raises: the rest of _execute_step
_execute_step_finish(workflow_id, step_id, raises) ==
  /\ stepPc[workflow_id][step_id].pc = "executing"
  /\ LET sm == IF raises
               THEN update_step_state(SM(workflows, clock, db), workflow_id, step_id,
                                      "FAILED", StepError(step_id), None, TRUE)
               ELSE update_step_state(SM(workflows, clock, db), workflow_id, step_id,
                                      "COMPLETED", None, "success", TRUE)
     IN /\ Commit(sm)
  /\ stepPc' = [stepPc EXCEPT ![workflow_id][step_id] =
                  IF raises THEN [pc |-> "raised", exc |-> StepError(step_id)]
                  ELSE [pc |-> "returned", exc |-> None]]
  /\ UNCHANGED << maxWorkflowTimeout, cloudVars, stepCancelCalls, held, lastCall, schedVars, outerVars, stepsVars, cancelCalled, interrupts >>

\* asyncio.gather's _done_callback for a child task that is done: the first
\* child that raised or was cancelled completes the gather future with that
\* exception, the last child to return completes it with the results; a
\* future that is done stays as it is
gather_done_callback(workflow_id, step_id) ==
  /\ stepPc[workflow_id][step_id].pc \in {"returned", "raised", "cancelled"}
  /\ stepPc' = [stepPc EXCEPT ![workflow_id][step_id].pc = "joined"]
  /\ LET child == stepPc[workflow_id][step_id]
         others == batch[workflow_id] \ {step_id}
     IN IF gather[workflow_id].state # "pending"
        THEN UNCHANGED gather
        ELSE IF child.pc = "cancelled"
        THEN gather' = [gather EXCEPT ![workflow_id] =
                          [state |-> "exception", exc |-> "CancelledError"]]
        ELSE IF child.pc = "raised"
        THEN gather' = [gather EXCEPT ![workflow_id] =
                          [state |-> "exception", exc |-> child.exc]]
        ELSE IF \A s \in others : stepPc[workflow_id][s].pc = "joined"
        THEN gather' = [gather EXCEPT ![workflow_id] = [state |-> "result", exc |-> None]]
        ELSE UNCHANGED gather
  /\ UNCHANGED << maxWorkflowTimeout, cloudVars, stepCancelCalls, held, smVars, lastCall, schedVars, outerVars,
                  stepsPc, stepsExc, stepsMustCancel, pending, batch, cancelCalled, interrupts >>

\* One pass of WorkflowScheduler._cleanup_workflows, the task start() creates,
\* with no workflow older than the retention window and a store that answers.
\* The reload puts new objects in the cache: a run between execute_workflow's
\* fetch and the end of its steps task keeps the object it fetched.
_cleanup_workflows ==
  /\ started
  /\ LET cleaned == cleanup_completed_workflows(SM(workflows, clock, db), NothingAged, TRUE, TRUE)
     IN Commit(cleaned.sm)
  /\ held' = [w \in WorkflowIds |->
                IF outerPc[w] = "await" /\ ~StepsTaskDone(w) /\ ~held[w].detached
                THEN [detached |-> TRUE, steps |-> workflows[w].steps]
                ELSE held[w]]
  /\ UNCHANGED << maxWorkflowTimeout, cloudVars, stepCancelCalls, lastCall, schedVars, outerVars, stepsVars, stepPc,
                  cancelCalled, interrupts >>

(***************************************************************************)
(* The engine: scheduler and executor over a healthy store.                *)
(***************************************************************************)
Next ==
  \/ start
  \/ \E w \in WorkflowIds : schedule_workflow(w)
  \/ _schedule_workflows
  \/ \E w \in WorkflowIds : _execute_workflow_begin(w)
  \/ \E w \in WorkflowIds : _execute_workflow_resume(w)
  \/ \E w \in WorkflowIds : _execute_workflow_steps_begin(w)
  \/ \E w \in WorkflowIds : _execute_workflow_steps_resume(w)
  \/ \E w \in WorkflowIds, s \in StepIds : _execute_step_begin(w, s)
  \/ \E w \in WorkflowIds, s \in StepIds, raises \in BOOLEAN : _execute_step_finish(w, s, raises)
  \/ \E w \in WorkflowIds, s \in StepIds : gather_done_callback(w, s)
  \/ \E w \in WorkflowIds : cancel_workflow(w)
  \/ \E w \in WorkflowIds : timeout_expires(w)

Spec == Init /\ [][Next]_vars

\* The engine under the event loop's scheduling: a task that can run does run,
\* a callback that is due is called, an execute call ends (returning or
\* raising).  Nothing obliges a caller to start the scheduler, to schedule or
\* to cancel a workflow, nor a timeout to expire.
Fairness ==
  /\ WF_vars(_schedule_workflows)
  /\ \A w \in WorkflowIds :
       /\ WF_vars(_execute_workflow_begin(w))
       /\ WF_vars(_execute_workflow_resume(w))
       /\ WF_vars(_execute_workflow_steps_begin(w))
       /\ WF_vars(_execute_workflow_steps_resume(w))
       /\ \A s \in StepIds :
            /\ WF_vars(_execute_step_begin(w, s))
            /\ WF_vars(\E raises \in BOOLEAN : _execute_step_finish(w, s, raises))
            /\ WF_vars(gather_done_callback(w, s))

FairSpec == Init /\ [][Next]_vars /\ Fairness

\* The engine with the scheduler's periodic cleanup
CleanupNext == Next \/ _cleanup_workflows

CleanupSpec == Init /\ [][CleanupNext]_vars

\* The engine with a scheduler that is stopped and started again, run on two
\* one-step workflows of which one at a time may be in flight, under the event
\* loop's scheduling
RestartIds == {"A", "B"}

RestartInit == DispatchInit /\ maxConcurrent = 1

RestartNext == Next \/ stop

RestartSpec == RestartInit /\ [][RestartNext]_vars /\ Fairness

\* The same engine run on three one-step workflows
\* The scheduler with one slot and two workflows whose steps may raise, under
\* a fair event loop and without stop()
FailureSpec == RestartInit /\ [][Next]_vars /\ Fairness

\* @dataclass SchedulerConfig: the fields are stored as they are given
SchedulerConfig(max_concurrent_workflows, max_workflow_timeout) ==
  [max_concurrent_workflows |-> max_concurrent_workflows,
   max_workflow_timeout |-> max_workflow_timeout]

\* The timeouts a configuration is created with
Timeouts == {0, DefaultMaxWorkflowTimeout}

\* WorkflowScheduler.__init__ with a configuration: two one-step workflows, one slot
ConfigInit ==
  /\ \E sc \in DispatchScenarios : workflows = Created(sc)
  /\ clock = [w \in WorkflowIds |-> 0]
  /\ db = Stored(workflows)
  /\ statusLog = NoLog
  /\ \E t \in Timeouts :
       LET config == SchedulerConfig(1, t)
       IN /\ maxConcurrent = config.max_concurrent_workflows
          /\ maxWorkflowTimeout = config.max_workflow_timeout
  /\ Idle

ConfigSpec == ConfigInit /\ [][Next]_vars

SchedulerSpec == SchedulerInit /\ [][Next]_vars

\* The same engine run on two one-step workflows
DispatchSpec == DispatchInit /\ [][Next]_vars

(***************************************************************************)
(* The State Manager called directly, one call per step, on a store whose  *)
(* save may fail (saveOk = FALSE).  lastCall records the call, the         *)
(* exception it raised and the cache it found.                             *)
(***************************************************************************)
DirectIds == {"A"}
DirectSteps == {"s1", "s2"}
DirectMessages == {None, "", "boom"}

Called(op, workflow_id, sm, saveOk) ==
  /\ Commit(sm)
  /\ lastCall' = [op |-> op, workflow_id |-> workflow_id, raised |-> sm.raised,
                  saveOk |-> saveOk, before |-> workflows, stored |-> db]
  /\ UNCHANGED << maxWorkflowTimeout, cloudVars, stepCancelCalls, held, schedVars, outerVars, stepsVars, stepPc, cancelCalled, interrupts >>

call_create_workflow(w, saveOk) ==
  /\ clock[w] < MaxWrites
  /\ Called("create_workflow", w, create_workflow(SM(workflows, clock, db), w, saveOk), saveOk)

call_add_step(w, s, saveOk) ==
  /\ clock[w] < MaxWrites
  /\ Called("add_step", w, add_step(SM(workflows, clock, db), w, s, saveOk), saveOk)

call_update_workflow_state(w, state, msg, saveOk) ==
  /\ clock[w] < MaxWrites
  /\ Called("update_workflow_state", w,
            update_workflow_state(SM(workflows, clock, db), w, state, msg, saveOk), saveOk)

call_update_step_state(w, s, state, msg, outputs, saveOk) ==
  /\ clock[w] < MaxWrites
  /\ Called("update_step_state", w,
            update_step_state(SM(workflows, clock, db), w, s, state, msg, outputs, saveOk), saveOk)

StateManagerInit ==
  /\ workflows = [w \in WorkflowIds |-> NoWorkflow]
  /\ clock = [w \in WorkflowIds |-> 0]
  /\ db = EmptyDb
  /\ statusLog = NoLog
  /\ maxConcurrent = 1
  /\ maxWorkflowTimeout = DefaultMaxWorkflowTimeout
  /\ Idle

StateManagerNext ==
  \/ \E w \in DirectIds, saveOk \in BOOLEAN : call_create_workflow(w, saveOk)
  \/ \E w \in DirectIds, s \in DirectSteps, saveOk \in BOOLEAN : call_add_step(w, s, saveOk)
  \/ \E w \in DirectIds, state \in WorkflowState, msg \in DirectMessages, saveOk \in BOOLEAN :
       call_update_workflow_state(w, state, msg, saveOk)
  \/ \E w \in DirectIds, s \in DirectSteps, state \in StepState, msg \in DirectMessages,
        outputs \in {None, "success"}, saveOk \in BOOLEAN :
       call_update_step_state(w, s, state, msg, outputs, saveOk)

StateManagerSpec == StateManagerInit /\ [][StateManagerNext]_vars

(***************************************************************************)
(* The State Manager and its store: direct calls on two workflows whose    *)
(* steps have the same id, and cleanup_completed_workflows with any cutoff *)
(* date, on a store each of whose operations may fail.                     *)
(***************************************************************************)
StoreIds == {"A", "B"}
StoreSteps == {"s1"}
StoreStates == {"RUNNING", "COMPLETED"}
CutoffDates == 0..MaxStoreWrites

\* StateManager.cleanup_completed_workflows(max_age_days) at a time when
\* datetime.now() - max_age_days is cutoff_date
call_cleanup_completed_workflows(cutoff_date, cleanupOk, loadOk) ==
  /\ LET cleaned == cleanup_completed_workflows(SM(workflows, clock, db), cutoff_date,
                                                cleanupOk, loadOk)
     IN /\ Commit(cleaned.sm)
        /\ lastCall' = [op |-> "cleanup_completed_workflows", raised |-> cleaned.sm.raised,
                        cutoff_date |-> cutoff_date, count |-> cleaned.count,
                        cleanupOk |-> cleanupOk, loadOk |-> loadOk,
                        before |-> workflows, stored |-> db]
  /\ UNCHANGED << maxWorkflowTimeout, cloudVars, stepCancelCalls, held, schedVars, outerVars, stepsVars, stepPc,
                  cancelCalled, interrupts >>

StoreNext ==
  \/ \E w \in StoreIds, saveOk \in BOOLEAN :
       clock[w] < MaxStoreWrites /\ call_create_workflow(w, saveOk)
  \/ \E w \in StoreIds, s \in StoreSteps, saveOk \in BOOLEAN :
       clock[w] < MaxStoreWrites /\ call_add_step(w, s, saveOk)
  \/ \E w \in StoreIds, state \in StoreStates, saveOk \in BOOLEAN :
       clock[w] < MaxStoreWrites /\ call_update_workflow_state(w, state, None, saveOk)
  \/ \E w \in StoreIds, s \in StoreSteps, state \in StoreStates, saveOk \in BOOLEAN :
       clock[w] < MaxStoreWrites /\ call_update_step_state(w, s, state, None, None, saveOk)
  \/ \E cutoff_date \in CutoffDates, cleanupOk \in BOOLEAN, loadOk \in BOOLEAN :
       call_cleanup_completed_workflows(cutoff_date, cleanupOk, loadOk)

StoreSpec == StateManagerInit /\ [][StoreNext]_vars

(***************************************************************************)
(* The mock provider called directly, its sleeping calls and background    *)
(* tasks resuming in any order.  lastCall is the step taken last.          *)
(***************************************************************************)
ProviderStep(op, deployment_id, template, operation, out) ==
  /\ provider' = out.p
  /\ lastCall' = [op |-> op, raised |-> out.raised, deployment_id |-> deployment_id,
                  template |-> template, operation |-> operation, before |-> provider]
  /\ UNCHANGED << engineVars, factory >>

NoTemplate == Template(FALSE, FALSE, FALSE, << >>)

\* The deployment has room for one more log line
LogHasRoom(deployment_id) ==
  deployment_id \in DOMAIN provider.logs => Len(provider.logs[deployment_id]) < MaxLogLines

\* connect() on a connected provider and disconnect() on a disconnected one
\* change nothing
call_connect ==
  /\ ~ provider.connected
  /\ ProviderStep("connect", None, NoTemplate, None, connect(provider))

call_disconnect ==
  /\ provider.connected
  /\ ProviderStep("disconnect", None, NoTemplate, None, disconnect(provider))

call_create_deployment(deployment_id, name, template, inputs) ==
  /\ deployment_id \notin provider.used
  /\ ProviderStep("create_deployment", deployment_id, template, None,
                  create_deployment(provider, deployment_id, name, template, inputs))

wake__simulate_deployment(deployment_id) ==
  /\ deployment_id \in provider.simulating
  /\ ProviderStep("_simulate_deployment", deployment_id, NoTemplate, None,
                  _simulate_deployment(provider, deployment_id))

call_delete_deployment(deployment_id) ==
  /\ provider.deleting[deployment_id] < MaxSleeping
  /\ LogHasRoom(deployment_id)
  /\ ProviderStep("delete_deployment", deployment_id, NoTemplate, None,
                  delete_deployment(provider, deployment_id))

wake_delete_deployment(deployment_id) ==
  /\ provider.deleting[deployment_id] > 0
  /\ ProviderStep("delete_deployment_resume", deployment_id, NoTemplate, None,
                  delete_deployment_resume(provider, deployment_id))

call_update_deployment(deployment_id, template, inputs) ==
  /\ LogHasRoom(deployment_id)
  /\ ProviderStep("update_deployment", deployment_id, template, None,
                  update_deployment(provider, deployment_id, template, inputs))

call_execute_operation(deployment_id, operation) ==
  /\ LogHasRoom(deployment_id)
  /\ Cardinality(provider.executing) < MaxSleeping
  /\ ProviderStep("execute_operation", deployment_id, NoTemplate, operation,
                  execute_operation(provider, deployment_id, operation))

wake_execute_operation(deployment_id, index) ==
  /\ << deployment_id, index >> \in provider.executing
  /\ ProviderStep("execute_operation_resume", deployment_id, NoTemplate, None,
                  execute_operation_resume(provider, deployment_id, index))

ProviderNext ==
  \/ call_connect
  \/ call_disconnect
  \/ \E d \in DeploymentIds, name \in DeploymentNames, template \in Templates,
        inputs \in DeploymentInputs : call_create_deployment(d, name, template, inputs)
  \/ \E d \in DeploymentIds : wake__simulate_deployment(d)
  \/ \E d \in DeploymentIds : call_delete_deployment(d)
  \/ \E d \in DeploymentIds : wake_delete_deployment(d)
  \/ \E d \in DeploymentIds, template \in Templates, inputs \in DeploymentInputs :
       call_update_deployment(d, template, inputs)
  \/ \E d \in DeploymentIds, operation \in OperationNames : call_execute_operation(d, operation)
  \/ \E d \in DeploymentIds, index \in 1..MaxLogLines : wake_execute_operation(d, index)

ProviderSpec == StateManagerInit /\ [][ProviderNext]_vars

(***************************************************************************)
(* The provider factory called directly.  lastCall is the call made last.  *)
(***************************************************************************)
ProviderTypes == {"mock", "k8s"}
ConfigNames == {"c1", "c2"}

\* The configurations register_config is called with: some of them invalid
CloudConfigs ==
  { CloudConfig(type, name, enabled, default, timeout) :
      type \in ProviderTypes, name \in ConfigNames \cup {""}, enabled \in BOOLEAN,
      default \in BOOLEAN, timeout \in {0, 300} }

NoConfig == CloudConfig("", "", FALSE, FALSE, 0)

FactoryStep(op, name, config, out) ==
  /\ factory' = out.p
  /\ lastCall' = [op |-> op, raised |-> out.raised, name |-> name, config |-> config,
                  before |-> factory]
  /\ UNCHANGED << engineVars, provider >>

call_register_provider(provider_type) ==
  /\ provider_type \notin factory.providers
  /\ FactoryStep("register_provider", provider_type, NoConfig,
                 register_provider(factory, provider_type))

call_register_config(config) ==
  /\ config \in CloudConfigs
  /\ FactoryStep("register_config", config.name, config, register_config(factory, config))

call_get_provider(name) ==
  /\ name # None => name \notin factory.instances
  /\ FactoryStep("get_provider", name, NoConfig, get_provider(factory, name))

call_remove_config(name) ==
  /\ name \in ConfigNames
  /\ FactoryStep("remove_config", name, NoConfig, remove_config(factory, name))

call_clear ==
  /\ factory.configs # << >>
  /\ FactoryStep("clear", None, NoConfig, clear(factory))

FactoryNext ==
  \/ \E provider_type \in ProviderTypes : call_register_provider(provider_type)
  \/ \E config \in CloudConfigs : call_register_config(config)
  \/ \E name \in ConfigNames \cup {None} : call_get_provider(name)
  \/ \E name \in ConfigNames : call_remove_config(name)
  \/ call_clear

FactorySpec == StateManagerInit /\ [][FactoryNext]_vars

(***************************************************************************)
(* Properties.                                                             *)
(***************************************************************************)
Exists(w) == workflows[w] # NoWorkflow
StepsOf(w) == IF Exists(w) THEN DOMAIN workflows[w].steps ELSE {}
StepStateOf(w, s) == workflows[w].steps[s].state
OnSuccess(w, p) == workflows[w].steps[p].outputs.on_success
OnFailure(w, p) == workflows[w].steps[p].outputs.on_failure

\* C1: the number of workflows whose status is RUNNING never exceeds
\* max_concurrent_workflows, whatever schedule_workflow calls were accepted
\* (the same id more than once included).
C1_RunningWithinLimit ==
  Cardinality({ w \in WorkflowIds : Exists(w) /\ workflows[w].state = "RUNNING" })
    <= maxConcurrent

\* This step moves step s of workflow w to RUNNING
BecomesRunning(w, s) ==
  /\ s \in StepsOf(w)
  /\ StepStateOf(w, s) # "RUNNING"
  /\ workflows'[w].steps[s].state = "RUNNING"

\* s is PENDING and every step of `preds` that lists s under on_success is
\* COMPLETED, every one that lists it under on_failure is FAILED
ReadyAmong(w, s, preds) ==
  /\ StepStateOf(w, s) = "PENDING"
  /\ \A p \in preds :
       /\ s \in OnSuccess(w, p) => StepStateOf(w, p) = "COMPLETED"
       /\ s \in OnFailure(w, p) => StepStateOf(w, p) = "FAILED"

\* C2: a step is moved to RUNNING only when it is PENDING and every
\* step that lists it under on_success is COMPLETED and every step that lists it
\* under on_failure is FAILED (a step that lists itself included).
C2_StartsOnlyWhenReady ==
  [][\A w \in WorkflowIds, s \in StepIds :
       BecomesRunning(w, s) => ReadyAmong(w, s, StepsOf(w))]_vars

\* What _get_executable_steps does enforce: a step is moved to RUNNING only
\* when it is PENDING and every OTHER step that lists it under on_success is
\* COMPLETED and every other step that lists it under on_failure is FAILED.
StartsOnlyWhenOthersReady ==
  [][\A w \in WorkflowIds, s \in StepIds :
       BecomesRunning(w, s) => ReadyAmong(w, s, StepsOf(w) \ {s})]_vars

\* C3: a workflow whose status is COMPLETED, FAILED or CANCELLED has every step
\* in status COMPLETED, FAILED or SKIPPED.
C3_TerminalWorkflowHasTerminalSteps ==
  \A w \in WorkflowIds :
    (Exists(w) /\ workflows[w].state \in TerminalWorkflowStates)
      => \A s \in StepsOf(w) : StepStateOf(w, s) \in TerminalStepStates

\* C4: a step is RUNNING only while its workflow is RUNNING.
C4_RunningStepInRunningWorkflow ==
  \A w \in WorkflowIds : \A s \in StepsOf(w) :
    StepStateOf(w, s) = "RUNNING" => workflows[w].state = "RUNNING"

\* C5: a workflow's status changes only along CREATED->PENDING,
\* PENDING->RUNNING, RUNNING->COMPLETED, RUNNING->FAILED, RUNNING->CANCELLED.
StatusEdges ==
  { <<"CREATED", "PENDING">>, <<"PENDING", "RUNNING">>, <<"RUNNING", "COMPLETED">>,
    <<"RUNNING", "FAILED">>, <<"RUNNING", "CANCELLED">> }

\* Every status a step writes to workflow w either equals the status it
\* replaces or is reached from it along an edge of the machine
RECURSIVE FollowsEdges(_, _)
FollowsEdges(from, written) ==
  IF written = << >> THEN TRUE
  ELSE /\ from = Head(written) \/ <<from, Head(written)>> \in StatusEdges
       /\ FollowsEdges(Head(written), Tail(written))

C5_StatusFollowsMachine ==
  [][\A w \in WorkflowIds :
       (Exists(w) /\ clock'[w] # clock[w])
         => FollowsEdges(workflows[w].state, statusLog'[w])]_vars

\* C6: once a workflow's status is COMPLETED, FAILED or CANCELLED, no call of
\* update_workflow_state changes its status, completed_at or error_message.
C6_TerminalRecordIsFrozen ==
  [][\A w \in WorkflowIds :
       (Exists(w) /\ workflows[w].state \in TerminalWorkflowStates)
         => /\ workflows'[w].state = workflows[w].state
            /\ workflows'[w].completed_at = workflows[w].completed_at
            /\ workflows'[w].error_message = workflows[w].error_message]_vars

\* C7: a State Manager write whose save fails raises to its caller and leaves
\* the cache as the call found it.
C7_FailedSaveRollsBack ==
  [][(/\ lastCall' # lastCall
      /\ lastCall'.op # "none"
      /\ ~ lastCall'.saveOk
      /\ lastCall'.raised # "ValueError")
       => (lastCall'.raised # None /\ workflows' = workflows)]_vars

\* The run of workflow w is over: _execute_workflow returned and no
\* _execute_step task is left to run
Over(w) ==
  /\ outerPc[w] = "done"
  /\ \A s \in StepIds : stepPc[w][s].pc \notin {"created", "executing"}

\* The execute call of step s raised
Raised(w, s) == stepPc[w][s].exc = StepError(s)

\* cancel_workflow or the timeout acted on the run of w
Interrupted(w) == cancelCalled[w] \/ timedOut[w]

C9_HandledFailureCompletes ==
  \A w \in WorkflowIds : \A s1, s2 \in StepsOf(w) :
    (/\ Over(w) /\ ~ Interrupted(w)
     /\ Raised(w, s1) /\ s2 \in OnFailure(w, s1) /\ ~ Raised(w, s2))
      => /\ StepStateOf(w, s1) = "FAILED"
         /\ StepStateOf(w, s2) = "COMPLETED"
         /\ workflows[w].state = "COMPLETED"

\* C10: once cancel_workflow has been called on a workflow whose executor task
\* is in flight, the workflow's status is never COMPLETED or FAILED.
C10_CancelledNeverCompletesOrFails ==
  \A w \in WorkflowIds :
    cancelCalled[w] => workflows[w].state \notin {"COMPLETED", "FAILED"}

\* C11: when a run that cancel_workflow interrupted while the workflow was
\* RUNNING is over, StepExecutor.cancel was called for every step still RUNNING
\* (it was RUNNING at the cancel) and no step is PENDING (the steps PENDING at
\* the cancel are SKIPPED).
C11_CancelReachesSteps ==
  \A w \in WorkflowIds :
    (cancelCalled[w] /\ workflows[w].started_at # NoTime /\ Over(w))
      => \A s \in StepsOf(w) :
           /\ StepStateOf(w, s) = "RUNNING" => s \in stepCancelCalls[w]
           /\ StepStateOf(w, s) # "PENDING"

\* C12: when a run whose timeout expired is over, the workflow is FAILED and
\* its error_message is the timeout message.
C12_TimeoutFailsWorkflow ==
  \A w \in WorkflowIds :
    (timedOut[w] /\ outerPc[w] = "done")
      => /\ workflows[w].state = "FAILED"
         /\ workflows[w].error_message = MsgTimeout

\* The ids accepted by schedule_workflow whose _execute_workflow task has not
\* started, oldest first: the tasks created and not yet run, then the queue
WaitingLine == spawned \o queue

\* C13: workflows are started in the order schedule_workflow accepted them: an
\* id joins the waiting line at its end only, and leaves it from its front only,
\* when its _execute_workflow task starts.
C13_DispatchIsFifo ==
  [][\/ WaitingLine' = WaitingLine
     \/ \E w \in WorkflowIds : WaitingLine' = Append(WaitingLine, w)
     \/ /\ spawned # << >>
        /\ spawned' = Tail(spawned)
        /\ WaitingLine' = Tail(WaitingLine)]_vars

\* B was accepted before A, both were dequeued and B's task is the next to start
C13_Witness == spawned = << "B", "A" >>

\* The steps reached from step s of workflow w along on_success and on_failure
\* edges, in at most n + 1 hops
RECURSIVE ReachedWithin(_, _, _)
ReachedWithin(w, s, n) ==
  LET next(from) == UNION { OnSuccess(w, p) \cup OnFailure(w, p) : p \in from }
  IN IF n = 0 THEN next({s})
     ELSE ReachedWithin(w, s, n - 1) \cup next(ReachedWithin(w, s, n - 1))

\* The step graph of w has no cycle and no on_failure edge
PlainGraph(w) ==
  /\ Exists(w)
  /\ \A s \in StepsOf(w) :
       /\ OnFailure(w, s) = {}
       /\ s \notin ReachedWithin(w, s, Cardinality(StepIds))

\* w is COMPLETED with every step COMPLETED, both timestamps and no error_message
CompletedCleanly(w) ==
  /\ workflows[w].state = "COMPLETED"
  /\ \A s \in StepsOf(w) : StepStateOf(w, s) = "COMPLETED"
  /\ workflows[w].started_at # NoTime
  /\ workflows[w].completed_at # NoTime
  /\ workflows[w].error_message = None

\* An execution of a step of w did not succeed
SomeStepFailed(w) == \E s \in StepsOf(w) : StepStateOf(w, s) = "FAILED"

\* C14, at the end of the run: a workflow with a plain graph whose run is
\* over, none of whose steps failed and whose run neither cancel_workflow nor
\* the timeout acted on, is COMPLETED with every step COMPLETED, both
\* timestamps set and no error_message.
C14_PlainWorkflowEndsCompleted ==
  \A w \in WorkflowIds :
    (PlainGraph(w) /\ Over(w) /\ ~ SomeStepFailed(w) /\ ~ Interrupted(w))
      => CompletedCleanly(w)

\* The last call wrote workflow w to the cache and saved it
Saved(w) ==
  /\ lastCall.op \in {"create_workflow", "add_step", "update_workflow_state",
                      "update_step_state"}
  /\ lastCall.workflow_id = w
  /\ lastCall.raised = None

\* C15: after a State Manager call has saved a workflow, load_workflow of its
\* id returns a workflow equal to the saved one, in every field and step for
\* step, also when another workflow's steps use the same step ids.
C15_SaveThenLoadIsEqual ==
  \A w \in WorkflowIds : Saved(w) => load_workflow(db, w) = workflows[w]

\* The workflows a cleanup with this cutoff date is to remove from the tables
Aged(store, cutoff_date) ==
  { w \in WorkflowIds :
      /\ store.workflows[w] # NoRow
      /\ store.workflows[w].state \in TerminalWorkflowStates
      /\ store.workflows[w].completed_at # NoTime
      /\ store.workflows[w].completed_at[1] <= cutoff_date }

\* The last call was a cleanup whose Database.cleanup_workflows succeeded
Cleaned ==
  /\ lastCall.op = "cleanup_completed_workflows"
  /\ lastCall.cleanupOk

C17_CleanupKeepsTheRest ==
  Cleaned =>
    \A w \in WorkflowIds :
      (lastCall.before[w] # NoWorkflow /\ w \notin Aged(lastCall.stored, lastCall.cutoff_date))
        => get_workflow_status(workflows, w) = lastCall.before[w]

\* t1 and t2 are in order when both are set
InOrder(t1, t2) == (t1 # NoTime /\ t2 # NoTime) => t1[1] <= t2[1]

\* C18: in every state, created_at <= started_at <= completed_at for every
\* workflow, for those of the three that are set.
C18_TimestampsInOrder ==
  \A w \in WorkflowIds :
    Exists(w) =>
      /\ InOrder(workflows[w].created_at, workflows[w].started_at)
      /\ InOrder(workflows[w].started_at, workflows[w].completed_at)
      /\ InOrder(workflows[w].created_at, workflows[w].completed_at)

\* C19: in every state, a workflow's completed_at is set if and only if its
\* status is COMPLETED, FAILED or CANCELLED.
C19_CompletedAtIffTerminal ==
  \A w \in WorkflowIds :
    Exists(w) =>
      (workflows[w].completed_at # NoTime <=> workflows[w].state \in TerminalWorkflowStates)

\* C20: in every state every step's retry_count is at most its max_retries,
\* and a retry_count rises only for a step that is FAILED or becomes FAILED in
\* that step: a step with retry_count above 0 has been FAILED before.
C20_RetriesWithinLimit ==
  /\ [](\A w \in WorkflowIds : \A s \in StepsOf(w) :
          /\ workflows[w].steps[s].retry_count >= 0
          /\ workflows[w].steps[s].retry_count <= workflows[w].steps[s].max_retries)
  /\ [][\A w \in WorkflowIds : \A s \in StepsOf(w) :
          (/\ workflows'[w] # NoWorkflow
           /\ s \in DOMAIN workflows'[w].steps
           /\ workflows'[w].steps[s].retry_count > workflows[w].steps[s].retry_count)
            => \/ StepStateOf(w, s) = "FAILED"
               \/ workflows'[w].steps[s].state = "FAILED"]_vars

\* The execute call of a step raised, the step is FAILED and its run is over
C20_Witness ==
  \E w \in WorkflowIds : \E s \in StepsOf(w) :
    /\ Raised(w, s)
    /\ StepStateOf(w, s) = "FAILED"
    /\ workflows[w].steps[s].retry_count <= workflows[w].steps[s].max_retries
    /\ Over(w)

\* The last call was create_workflow or add_step
Creating == lastCall.op \in {"create_workflow", "add_step"}

\* C21: create_workflow with an id that exists and add_step with a step id
\* that exists in the workflow raise ValueError and leave the cache and the
\* store as they were; a create_workflow that returns leaves the workflow
\* CREATED, and an add_step that returns has added one step, which is PENDING.
C21_DuplicatesAreRefused ==
  Creating =>
    LET w == lastCall.workflow_id
        old == lastCall.before[w]
    IN /\ (lastCall.op = "create_workflow" /\ old # NoWorkflow)
            => lastCall.raised = "ValueError"
       /\ lastCall.raised = "ValueError"
            => workflows = lastCall.before /\ db = lastCall.stored
       /\ (lastCall.op = "create_workflow" /\ lastCall.raised = None)
            => /\ old = NoWorkflow
               /\ workflows[w].state = "CREATED"
               /\ workflows[w].steps = << >>
       /\ (lastCall.op = "add_step" /\ lastCall.raised = None)
            => \E s \in StepIds :
                 /\ s \notin DOMAIN old.steps
                 /\ DOMAIN workflows[w].steps = DOMAIN old.steps \cup {s}
                 /\ workflows[w].steps[s].state = "PENDING"
                 /\ \A o \in DOMAIN old.steps : workflows[w].steps[o] = old.steps[o]

\* add_step was refused for a step that exists and is no longer PENDING
C21_Witness ==
  /\ lastCall.op = "add_step"
  /\ lastCall.raised = "ValueError"
  /\ lastCall.before[lastCall.workflow_id] # NoWorkflow
  /\ \E s \in StepsOf(lastCall.workflow_id) : StepStateOf(lastCall.workflow_id, s) = "COMPLETED"

\* The _execute_workflow task of w waits for its run to end
InFlight(w) == outerPc[w] = "await"

\* w is in the queue and no _execute_workflow task was ever created for it
QueuedNotStarted(w) ==
  /\ \E i \in 1..Len(queue) : queue[i] = w
  /\ \A i \in 1..Len(spawned) : spawned[i] # w
  /\ outerPc[w] = "none"

CyclicGraph(w) ==
  /\ Exists(w)
  /\ \E s \in StepsOf(w) : s \in ReachedWithin(w, s, Cardinality(StepIds))

\* C23, as stated: a workflow whose step graph contains a cycle is never
\* started: its status stays CREATED and none of its steps is RUNNING.
C23_CyclicWorkflowNeverStarted ==
  \A w \in WorkflowIds :
    CyclicGraph(w) =>
      /\ workflows[w].state = "CREATED"
      /\ \A s \in StepsOf(w) : StepStateOf(w, s) # "RUNNING"

\* Some workflow ended FAILED
SomeWorkflowFailed == \E v \in WorkflowIds : Exists(v) /\ workflows[v].state = "FAILED"

\* C24: a failure does not stop the dispatch loop.  Once the scheduler is
\* started and some workflow is FAILED, a queue that is not empty is emptied:
\* every id waiting in it, or accepted later, is dequeued and a task is
\* created for it.
C24_FailureDoesNotStopDispatch ==
  (started /\ SomeWorkflowFailed /\ queue # << >>) ~> (queue = << >>)

\* A workflow is FAILED while another is queued and not started
C24_Witness ==
  /\ started
  /\ SomeWorkflowFailed
  /\ \E w \in WorkflowIds : QueuedNotStarted(w) /\ workflows[w].state = "CREATED"

\* C25, as stated: a workflow that is FAILED or CANCELLED has an
\* error_message that is not empty, and so has a step that is FAILED.
C25_FailuresCarryAMessage ==
  \A w \in WorkflowIds :
    Exists(w) =>
      /\ workflows[w].state \in {"FAILED", "CANCELLED"} => Truthy(workflows[w].error_message)
      /\ \A s \in StepsOf(w) :
           StepStateOf(w, s) = "FAILED" => Truthy(workflows[w].steps[s].error_message)

\* C26, as stated: a configuration whose max_workflow_timeout is zero is
\* rejected, so under such a configuration the scheduler is never started and
\* no _execute_workflow task ever runs.
C26_ZeroTimeoutIsRejected ==
  maxWorkflowTimeout = 0 =>
    /\ ~ started
    /\ \A w \in WorkflowIds : outerPc[w] = "none" /\ spawned = << >>

\* The call of the provider made last, when it was operation op
ProviderCall(op) == lastCall.op = op

\* The provider's state but for its connection and its sleeping calls
Contents(p) == << p.deployments, p.resources, p.operations, p.logs, p.metrics >>

\* C27, as stated: delete_deployment of a deployment that an earlier
\* delete_deployment removed, on a connected provider, raises nothing and
\* changes nothing.
C27_SecondDeleteSucceeds ==
  (/\ ProviderCall("delete_deployment")
   /\ lastCall.before.connected
   /\ lastCall.deployment_id \in lastCall.before.used
   /\ lastCall.deployment_id \notin DOMAIN lastCall.before.deployments)
    => lastCall.raised = None /\ provider = lastCall.before

\* The call made last was create_deployment or update_deployment with a
\* template validate_template finds errors in
InvalidTemplateGiven ==
  /\ lastCall.op \in {"create_deployment", "update_deployment"}
  /\ validate_template(lastCall.template) # << >>

Names(list) == { list[i] : i \in 1..Len(list) }

\* C29, as stated: execute_operation on a deployment the connected provider
\* has, with an operation name that get_operation_types does not list, raises
\* OperationError and records no operation for the deployment.
C29_UnknownOperationIsRefused ==
  (/\ ProviderCall("execute_operation")
   /\ lastCall.before.connected
   /\ lastCall.deployment_id \in DOMAIN lastCall.before.deployments
   /\ lastCall.operation \notin Names(get_operation_types(lastCall.before).result))
    => /\ lastCall.raised = "OperationError"
       /\ provider.operations = lastCall.before.operations

\* The registered configurations whose default is true
Defaults == { n \in DOMAIN factory.configs : factory.configs[n].default }

\* register_config was given a configuration with default = true, accepted it,
\* and another configuration was the default before
DefaultReplaced ==
  /\ lastCall.op = "register_config"
  /\ lastCall.raised = None
  /\ lastCall.config.default
  /\ lastCall.before.default_provider \notin {None, lastCall.name}

\* C30: whatever register_config, remove_config and clear calls were made, at
\* most one registered configuration has default = true, the factory's default
\* name, when set, is the name of that configuration, and a register_config
\* with default = true that replaces a default leaves the previous default
\* registered with default = false.
C30_AtMostOneDefault ==
  /\ Cardinality(Defaults) <= 1
  /\ factory.default_provider # None => Defaults = {factory.default_provider}
  /\ DefaultReplaced =>
       /\ factory.default_provider = lastCall.name
       /\ lastCall.before.configs[lastCall.before.default_provider].default
       /\ ~ factory.configs[lastCall.before.default_provider].default

\* The default moved from a registered configuration, of which an instance
\* exists, to a new one
C30_Witness ==
  /\ DefaultReplaced
  /\ lastCall.before.default_provider \in factory.instances

\* The steps of w with an edge to s
Predecessors(w, s) == { p \in StepsOf(w) : s \in OnSuccess(w, p) \cup OnFailure(w, p) }

\* Every edge into s is an on_success edge from a step that ended FAILED
OnlyAfterSuccessOfFailed(w, s) ==
  /\ Predecessors(w, s) # {}
  /\ \A p \in Predecessors(w, s) :
       s \in OnSuccess(w, p) /\ s \notin OnFailure(w, p) /\ StepStateOf(w, p) = "FAILED"

\* Every edge into s is an on_failure edge from a step that ended COMPLETED
OnlyAfterFailureOfCompleted(w, s) ==
  /\ Predecessors(w, s) # {}
  /\ \A p \in Predecessors(w, s) :
       s \in OnFailure(w, p) /\ s \notin OnSuccess(w, p) /\ StepStateOf(w, p) = "COMPLETED"

\* C31, as stated, at the end of the run: a step that only on_success edges
\* from FAILED steps lead to, or only on_failure edges from COMPLETED steps,
\* is SKIPPED and was never executed.
C31_UnreachedBranchIsSkipped ==
  \A w \in WorkflowIds : \A s \in StepsOf(w) :
    (Over(w) /\ (OnlyAfterSuccessOfFailed(w, s) \/ OnlyAfterFailureOfCompleted(w, s)))
      => /\ StepStateOf(w, s) = "SKIPPED"
         /\ stepPc[w][s].pc = "none"

\* C32, as stated: once the execute call of a step has raised, the step's
\* retry_count has been incremented, and the step is FAILED only when
\* retry_count has passed max_retries.
C32_FailedOnlyAfterRetries ==
  \A w \in WorkflowIds : \A s \in StepsOf(w) :
    Raised(w, s) =>
      /\ workflows[w].steps[s].retry_count >= 1
      /\ StepStateOf(w, s) = "FAILED"
           => workflows[w].steps[s].retry_count > workflows[w].steps[s].max_retries

\* The steps of w that are PENDING, and those of them whose predecessors allow
\* them to start, both read from the State Manager's cache
PendingNow(w) == { s \in StepsOf(w) : StepStateOf(w, s) = "PENDING" }
ReadyNow(w) == _get_executable_steps(workflows[w], PendingNow(w))
Stuck(w) ==
  /\ PendingNow(w) # {}
  /\ ReadyNow(w) = {}
  /\ \A s \in StepsOf(w) : StepStateOf(w, s) # "RUNNING"

\* The steps task of w takes the step that evaluates one round of its loop
EvaluatesRound(w) ==
  \/ /\ stepsPc[w] = "created"
     /\ ~stepsMustCancel[w]
     /\ stepsPc'[w] # "created"
  \/ /\ stepsPc[w] = "gather"
     /\ gather[w].state = "result"
     /\ ~stepsMustCancel[w]
     /\ (stepsPc'[w] # "gather" \/ gather'[w] # gather[w])

IsDiamond(w) ==
  /\ Exists(w)
  /\ StepsOf(w) = {"s1", "s2", "s3", "s4"}
  /\ OnSuccess(w, "s1") = {"s2", "s3"}
  /\ OnSuccess(w, "s2") = {"s4"}
  /\ OnSuccess(w, "s3") = {"s4"}

\* C34: in the diamond, s4 has left PENDING only when s2 and s3 are both
\* COMPLETED, and s2 or s3 has left PENDING only when s1 is COMPLETED (the
\* state with s2 and s3 both RUNNING is the witness).
C34_DiamondJoinWaitsForBoth ==
  \A w \in WorkflowIds :
    IsDiamond(w) =>
      /\ StepStateOf(w, "s4") # "PENDING"
           => StepStateOf(w, "s2") = "COMPLETED" /\ StepStateOf(w, "s3") = "COMPLETED"
      /\ (StepStateOf(w, "s2") # "PENDING" \/ StepStateOf(w, "s3") # "PENDING")
           => StepStateOf(w, "s1") = "COMPLETED"
      /\ stepPc[w]["s4"].pc # "none"
           => StepStateOf(w, "s2") = "COMPLETED" /\ StepStateOf(w, "s3") = "COMPLETED"

\* s2 and s3 RUNNING at the same instant, both inside their execute call
C34_Witness ==
  \E w \in WorkflowIds :
    /\ IsDiamond(w)
    /\ StepStateOf(w, "s2") = "RUNNING"
    /\ StepStateOf(w, "s3") = "RUNNING"
    /\ stepPc[w]["s2"].pc = "executing"
    /\ stepPc[w]["s3"].pc = "executing"
    /\ StepStateOf(w, "s4") = "PENDING"

\* The workflows that have an _execute_workflow task created and not finished
TaskUnfinished(w) ==
  \/ outerPc[w] = "await"
  \/ \E i \in 1..Len(spawned) : spawned[i] = w

\* C35, as stated: the in-flight set holds exactly the ids of the workflows
\* that have an unfinished _execute_workflow task, so that the id is in the
\* set when the task's finally clause removes it.
C35_InFlightSetIsExact ==
  \A w \in WorkflowIds : w \in running <=> TaskUnfinished(w)

\* C36, as stated: while a workflow is COMPLETED, FAILED or CANCELLED, no step
\* of it changes (status, outputs, error_message, timestamps).
C36_StepsFrozenAfterWorkflowEnd ==
  [][\A w \in WorkflowIds :
       (Exists(w) /\ workflows[w].state \in {"COMPLETED", "FAILED", "CANCELLED"})
         => workflows'[w].steps = workflows[w].steps]_vars

\* The steps task of w is about to compute a ready-set: at its first run, or
\* when gather has returned the results of the previous round
RoundDue(w) ==
  /\ Exists(w)
  /\ outerPc[w] = "await"
  /\ \/ stepsPc[w] = "created"
     \/ stepsPc[w] = "gather" /\ gather[w].state = "result"

\* C37, as stated: whenever the executor is about to compute a ready-set, the
\* step statuses in the workflow object it computes it from are the statuses
\* the State Manager holds, a cleanup pass during the run included.
C37_ReadySetReadsCurrentStatuses ==
  \A w \in WorkflowIds :
    RoundDue(w) =>
      \A s \in StepsOf(w) :
        Held(workflows, w).steps[s].state = StepStateOf(w, s)

(***************************************************************************)
(* The scheduler with cancel_workflow also called for workflows that have  *)
(* no task in the executor.  lastCall is the last such call.               *)
(***************************************************************************)
\* WorkflowExecutor.cancel_workflow for an id that is not registered in
\* executor._running_workflows: `task` is None and the call returns.  The
\* record says whether the id was waiting in the scheduler's queue then
cancel_workflow_without_task(workflow_id) ==
  /\ outerPc[workflow_id] # "await"
  /\ lastCall' = [op |-> "cancel_workflow", raised |-> None, workflow_id |-> workflow_id,
                  waiting |-> /\ \E i \in 1..Len(queue) : queue[i] = workflow_id
                              /\ workflow_id \notin running
                              /\ outerPc[workflow_id] = "none"]
  /\ UNCHANGED << engineVars, cloudVars >>

CancelNext == Next \/ \E w \in WorkflowIds : cancel_workflow_without_task(w)

CancelSpec == DispatchInit /\ [][CancelNext]_vars

\* C38, as stated: a workflow for which cancel_workflow was called while its
\* id was waiting in the queue is not RUNNING afterwards.
C38_CancelledInQueueNeverRuns ==
  (lastCall.op = "cancel_workflow" /\ lastCall.waiting)
    => workflows[lastCall.workflow_id].state # "RUNNING"

\* One step of the model leaves the status of a step alone or moves it along
\* PENDING, RUNNING, COMPLETED | FAILED.  A step whose type has no executor is
\* written RUNNING and FAILED in one run of its task: it goes from PENDING to
\* FAILED with started_at set on the way
StepMoves(before, after) ==
  \/ after.state = before.state
  \/ before.state = "PENDING" /\ after.state = "RUNNING"
  \/ before.state = "RUNNING" /\ after.state \in {"COMPLETED", "FAILED"}
  \/ /\ before.state = "PENDING"
     /\ after.state = "FAILED"
     /\ after.started_at # NoTime
     /\ after.error_message = MsgUnknownType

CompletionWakes(d) == d \in provider.simulating /\ d \notin provider'.simulating

\* C40, as stated: a deployment that is 'deleting' is not 'running' after any
\* step, and the background completion of a deployment wakes only while the
\* deployment is still there.
C40_CompletionRespectsDelete ==
  [][\A d \in DeploymentIds :
       /\ (/\ d \in DOMAIN provider.deployments
           /\ provider.deployments[d].state = "deleting"
           /\ d \in DOMAIN provider'.deployments)
            => provider'.deployments[d].state # "running"
       /\ CompletionWakes(d) => d \in DOMAIN provider.deployments]_vars

====
